---- MODULE Spec2Model ----
(***************************************************************************)
(* A state-machine model of the island ecosystem simulation: World (the    *)
(* registry and clock), Creature, SimpleBrain, Entity physics, Food, Tree  *)
(* and DNA.                                                                *)
(*                                                                         *)
(* Numbers are fixed point.  Time is in hundredths of a second, energy in  *)
(* thousandths of an energy unit, lengths in hundredths of a world unit,   *)
(* velocities in hundredths of a unit per second, genes in hundredths and  *)
(* the time scale in tenths.  Every random angle is drawn from {0, pi}, so *)
(* cos is 1 or -1 and sin is 0: every z coordinate stays 0 and only x      *)
(* (horizontal) and y (height) are stored.                                 *)
(***************************************************************************)
EXTENDS Integers, Sequences, FiniteSets, TLC

VARIABLES
    creatures,        \* World.creatures: sequence of creature records
    foodEntities,     \* World.foodEntities: sequence of food records
    trees,            \* World.trees: sequence of tree records
    time,             \* World.time (simulated clock)
    isPaused,         \* World.isPaused
    lastTimestamp,    \* World.lastTimestamp
    timeScale,        \* World.timeScale
    totalBirths,      \* World.totalBirths
    totalDeaths,      \* World.totalDeaths
    isExtinct,        \* World.isExtinct
    usableRadius,     \* WORLD_CONFIG.ISLAND_USABLE_RADIUS (rewritten by reset)
    nextEntityId,     \* Entity.js module counter nextEntityId
    now,              \* performance.now(): the wall clock
    started,          \* whether World.start() has begun the frame loop
    eatLog,           \* history: one record per Creature.eat call
    birthLog,         \* history: one record per Creature.reproduce call
    jumpLog,          \* history: one record per Creature.jump call that succeeded
    lastOp,           \* history: what the last operation was and did
    opLog,            \* history: the last operation's arguments, result and steps
    dna,              \* a genome under test (DNA specification only)
    budget            \* operations left (bounds the exploration)

vars == <<creatures, foodEntities, trees, time, isPaused, lastTimestamp,
          timeScale, totalBirths, totalDeaths, isExtinct, usableRadius,
          nextEntityId, now, started, eatLog, birthLog, jumpLog, lastOp, opLog,
          dna, budget>>

worldVars == <<creatures, foodEntities, trees, time, isPaused, lastTimestamp,
               timeScale, totalBirths, totalDeaths, isExtinct, usableRadius,
               nextEntityId, now, started, eatLog, birthLog, jumpLog, lastOp,
               opLog>>

----------------------------------------------------------------------------
(* Units *)

Sec(s) == s * 100          \* seconds -> time units
En(e) == e * 1000          \* energy units -> energy fixed point
Units(u) == u * 100        \* world units -> length fixed point

Min(a, b) == IF a < b THEN a ELSE b
Max(a, b) == IF a > b THEN a ELSE b
Abs(a) == IF a < 0 THEN -a ELSE a

\* Division rounding toward zero, as a symmetric stand-in for float division.
Quot(a, b) == IF a >= 0 THEN a \div b ELSE -((-a) \div b)

\* F applied to the value of v, with v evaluated once.
Bind(v, F(_)) == CHOOSE r \in {F(x) : x \in {v}} : TRUE

\* A property that was never assigned reads as undefined in JavaScript.
Undefined == -1
\* undefined * NaN: FOOD_CONFIG has no EXPIRATION_TIME_MEAN / _VARIANCE keys.
NaN == -2

----------------------------------------------------------------------------
(* config.js *)

MAX_DELTA_TIME == Sec(1)
STARTING_ENERGY_MIN == En(50)
STARTING_ENERGY_MAX == En(70)
MAX_ENERGY == En(100)
ENERGY_DRAIN_RATE == En(2)             \* per second
SPEED == Units(5)                        \* per second
SEEK_SPEED_TENTHS == 15                \* SEEK_SPEED_MULTIPLIER 1.5
PERCEPTION_RADIUS == Units(15)
HUNGER_THRESHOLD == En(40)
SATISFIED_THRESHOLD == En(95)
EATING_DISTANCE == Units(1) + 50         \* 1.5
WANDER_DIRECTION_CHANGE == Sec(3)
NUTRITION == En(25)
CREATURE_SLIDER_MIN == 10              \* 1, as a time scale in tenths
SPEED_SLIDER_MIN == 2                  \* 0.2
SPEED_SLIDER_MAX == 150                \* 15.0
DEFAULT_SPEED == 10                    \* 1.0
FOOD_SPAWN_RADIUS == Units(5)
MAX_FOOD_PER_TREE == 10
INITIAL_FOOD_MIN == 1
INITIAL_FOOD_MAX == 3
MUTATION_AMOUNT == 20                  \* 0.2, in gene hundredths
REPRODUCTION_ENERGY_THRESHOLD == En(85)
REPRODUCTION_ENERGY_COST == En(40)
REPRODUCTION_COOLDOWN == Sec(30)
OFFSPRING_STARTING_ENERGY == En(60)
OFFSPRING_SPAWN_DISTANCE == Units(2)
GRAVITY == Units(20)                     \* per second squared
GROUND_LEVEL == 0
JUMPING_ENABLED == TRUE
BASE_JUMP_VELOCITY == Units(10)
JUMP_COOLDOWN == Sec(2)
JUMP_ENERGY_COST_BASE == En(5)
JUMP_ENERGY_SCALING_TENTHS == 15       \* JUMP_ENERGY_SCALING 1.5
FOOD_GROUND_HEIGHT == 30               \* Food.getGroundHeight: 0.3
STEP_DELTA == 5                        \* stepForward: 1/20 s

----------------------------------------------------------------------------
(* DNA.js *)

GeneNames == {"speed", "perception", "efficiency", "size", "hue", "jumpPower"}

\* Math.max(lo, Math.min(hi, v))
Clamp(lo, hi, v) == Max(lo, Min(hi, v))

\* Variant of MutateGene without the clamps and the wrap.
MutateGeneUnclamped(gene, v, delta) == v + delta

\* One gene of DNA.mutate after the mutation roll succeeded.  delta is
\* (Math.random() - 0.5) * MUTATION_AMOUNT, in [-10, 10) hundredths.
MutateGene(gene, v, delta) ==
    IF gene = "hue" THEN (v + delta + 100) % 100
    ELSE IF gene = "size" THEN Clamp(50, 200, v + delta)
    ELSE IF gene = "jumpPower" THEN Clamp(50, 150, v + delta)
    ELSE Clamp(50, 150, v + delta)

NoRoll == 99   \* Math.random() >= MUTATION_RATE: the gene is copied

\* DNA.mutate: rolls maps each gene to NoRoll or to its delta.  The result
\* is new DNA(mutatedGenes): a fresh object with no generation property.
Mutate(d, rolls) ==
    [genes |-> [g \in GeneNames |->
                  IF rolls[g] = NoRoll THEN d.genes[g]
                  ELSE MutateGene(g, d.genes[g], rolls[g])],
     generation |-> Undefined]

\* new DNA() with the six Math.random() draws given.
NewDNA(genes) == [genes |-> genes, generation |-> Undefined]

----------------------------------------------------------------------------
(* Entity.js *)

\* Entity.constructor(x, z): y starts at 0, at rest, grounded.
Entity(id, x) ==
    [id |-> id, pos |-> [x |-> x, y |-> 0], vel |-> [x |-> 0, y |-> 0],
     isGrounded |-> TRUE]

\* Entity.update with the subclass's getGroundHeight() and gravity flag given.
\* With z = 0, atan2(z, x) is 0 for x >= 0 and pi for x < 0.
EntityUpdate(e, dt, groundHeight, affectedByGravity, radius) ==
    LET vy1 == IF affectedByGravity /\ ~e.isGrounded
               THEN e.vel.y - Quot(GRAVITY * dt, 100) ELSE e.vel.y
        x1 == e.pos.x + Quot(e.vel.x * dt, 100)
        y1 == e.pos.y + Quot(vy1 * dt, 100)
        landed == y1 <= groundHeight
        outside == Abs(x1) > radius
        cosA == IF x1 >= 0 THEN 1 ELSE -1
        normalX == -cosA
        dot == e.vel.x * normalX
    IN  [e EXCEPT
           !.pos = [x |-> IF outside THEN cosA * radius ELSE x1,
                    y |-> IF landed THEN groundHeight ELSE y1],
           !.vel = [x |-> IF outside THEN e.vel.x - 2 * dot * normalX
                          ELSE e.vel.x,
                    y |-> IF landed THEN 0 ELSE vy1],
           !.isGrounded = landed]

----------------------------------------------------------------------------
(* Food.js *)

\* Food.constructor(x, z, y); expirationTime is the constructor's random draw.
Food(id, x, y, expirationTime) ==
    [id |-> id, pos |-> [x |-> x, y |-> y], vel |-> [x |-> 0, y |-> 0],
     isGrounded |-> TRUE, nutrition |-> NUTRITION, isConsumed |-> FALSE,
     isExpired |-> FALSE, age |-> 0, isAttachedToTree |-> FALSE,
     expirationTime |-> expirationTime]

\* this.age >= this.expirationTime; every comparison with NaN is false.
AgeReached(age, expirationTime) ==
    expirationTime # NaN /\ age >= expirationTime

\* Food.update
FoodUpdate(f, dt, radius) ==
    LET aged == [f EXCEPT !.age = f.age + dt]
    IN  IF AgeReached(aged.age, aged.expirationTime)
        THEN [aged EXCEPT !.isExpired = TRUE]
        ELSE IF aged.isAttachedToTree THEN aged
        ELSE EntityUpdate(aged, dt, FOOD_GROUND_HEIGHT, TRUE, radius)

\* Variant of Consume that flips the flag.
ConsumeToggle(f) == [f EXCEPT !.isConsumed = ~@]

\* Food.consume
Consume(f) == [f EXCEPT !.isConsumed = TRUE]

----------------------------------------------------------------------------
(* Creature.js: construction and derived traits *)

\* Creature.calculateMaxJumpHeight
CalculateMaxJumpHeight(d) ==
    IF ~JUMPING_ENABLED THEN 0
    ELSE LET jumpVelocity == Quot(BASE_JUMP_VELOCITY * d.genes.jumpPower, 100)
         IN  Quot(jumpVelocity * jumpVelocity, 2 * GRAVITY)

\* Creature.getGroundHeight: 0.5 * size
GetGroundHeight(c) == Quot(c.dna.genes.size, 2)

\* new SimpleBrain(creature): r.dir is randomDirection(), r.fuzz the fuzz
\* factor in hundredths (80..120).
SimpleBrain(r) ==
    [wanderTimer |-> 0, wanderDirection |-> r.dir,
     wanderChangeInterval |-> Quot(WANDER_DIRECTION_CHANGE * r.fuzz, 100)]

\* JavaScript truthiness of a generation value: undefined and 0 are falsy.
Truthy(g) == g # Undefined /\ g # 0

\* The generation an offspring is given (Creature.constructor, parentDNA set).
OffspringGeneration(parentDNA) ==
    IF Truthy(parentDNA.generation) THEN parentDNA.generation + 1 ELSE 1

\* Creature.constructor(x, z, species, parentDNA).  hasParent says whether
\* parentDNA was passed; r holds the constructor's random draws.
Creature(id, x, hasParent, parentDNA, r) ==
    LET d == IF hasParent THEN Mutate(parentDNA, r.rolls)
             ELSE [NewDNA(r.genes) EXCEPT !.generation = 0]
        e == Entity(id, x)
    IN  [id |-> id,
         pos |-> [x |-> x, y |-> Quot(d.genes.size, 2)],
         vel |-> e.vel,
         isGrounded |-> e.isGrounded,
         dna |-> d,
         energy |-> IF hasParent THEN OFFSPRING_STARTING_ENERGY ELSE r.energy,
         generation |-> IF hasParent THEN OffspringGeneration(parentDNA) ELSE 0,
         maxEnergy |-> MAX_ENERGY,
         speed |-> Quot(SPEED * d.genes.speed, 100),
         perceptionRadius |-> Quot(PERCEPTION_RADIUS * d.genes.perception, 100),
         energyDrainRate |->
             Quot(Quot(ENERGY_DRAIN_RATE * 100, d.genes.efficiency)
                  * d.genes.size, 100),
         state |-> "wandering",
         age |-> 0,
         isDead |-> FALSE,
         timeSinceReproduction |-> 0,
         jumpCooldown |-> 0,
         maxJumpHeight |-> CalculateMaxJumpHeight(d),
         brain |-> SimpleBrain(r)]

----------------------------------------------------------------------------
(* The part of the world one tick reads and writes, as a record w:         *)
(* creatures, foodEntities, trees, totalBirths, totalDeaths, nextEntityId, *)
(* eatLog, birthLog, jumpLog, log, radius (ISLAND_USABLE_RADIUS).  A tick's random draws are the *)
(* record rnd: angle (cos of the offspring spawn angle), rolls (mutation), *)
(* dir and fuzz (a brain's direction draws and interval fuzz), treeAngle,  *)
(* treeDist, heightFrac (Tree.spawnFood) and expiration (Food).            *)

\* The history of one operation: request (its arguments), returned (its
\* return value, where it has one), order (the update and removal calls
\* made, in order), corpses (each removed creature as removeCreature
\* received it), counts (per Tree.update, the length of foodItems at the
\* cap test), thoughts (per brain.think call, the creature's state when
\* the call was made and when it returned), seeks (per seekFood call that
\* found food out of eating reach: the creature, the food, whether jump()
\* was called and what it returned) and raised (whether the operation
\* threw: no operation of World has a throw statement).
NoLog ==
    [request |-> <<>>, returned |-> <<>>, order |-> <<>>, corpses |-> <<>>,
     counts |-> <<>>, thoughts |-> <<>>, seeks |-> <<>>, raised |-> FALSE]

\* One entry of order.
Step(kind, id) == [kind |-> kind, id |-> id]

\* Variant of SpawnOffspring that does not count the birth.
SpawnOffspringUncounted(w, x, parentDNA, rnd) ==
    [w EXCEPT
       !.creatures = Append(@, Creature(w.nextEntityId, x, TRUE, parentDNA, rnd)),
       !.nextEntityId = @ + 1]

\* World.spawnOffspring(x, z, parentDNA)
SpawnOffspring(w, x, parentDNA, rnd) ==
    [w EXCEPT
       !.creatures = Append(@, Creature(w.nextEntityId, x, TRUE, parentDNA, rnd)),
       !.nextEntityId = @ + 1,
       !.totalBirths = @ + 1]

\* World.spawnCreature(x, z)
SpawnCreatureIn(w, x, rnd) ==
    [w EXCEPT
       !.creatures = Append(@, Creature(w.nextEntityId, x, FALSE, NewDNA(rnd.genes), rnd)),
       !.nextEntityId = @ + 1]

\* World.spawnFood(x, z, y)
SpawnFoodIn(w, x, y, attached, expirationTime) ==
    [w EXCEPT
       !.foodEntities = Append(@, [Food(w.nextEntityId, x, y, expirationTime)
                                     EXCEPT !.isAttachedToTree = attached]),
       !.nextEntityId = @ + 1]

\* World.removeCreature: indexOf, splice, totalDeaths++.
RemoveCreature(w, id) ==
    IF \E k \in 1..Len(w.creatures) : w.creatures[k].id = id
    THEN [w EXCEPT !.creatures = SelectSeq(@, LAMBDA c : c.id # id),
                   !.totalDeaths = @ + 1]
    ELSE w

----------------------------------------------------------------------------
(* Creature.js: jump, eat, reproduce *)

\* The energy cost computed by Creature.jump.
JumpCost(c) ==
    Quot(Quot(Quot(JUMP_ENERGY_COST_BASE * c.dna.genes.jumpPower, 100)
              * JUMP_ENERGY_SCALING_TENTHS, 10) * c.dna.genes.size, 100)

\* Variant of JumpSucceeds whose energy test is exclusive.
JumpSucceedsStrict(c) ==
    /\ JUMPING_ENABLED
    /\ c.isGrounded
    /\ ~(c.jumpCooldown > 0)
    /\ c.energy > JumpCost(c)

\* Variant of JumpSucceeds without the cooldown test.
JumpSucceedsOnCooldown(c) ==
    /\ JUMPING_ENABLED
    /\ c.isGrounded
    /\ ~(c.energy < JumpCost(c))

\* Whether Creature.jump passes its four early returns; jump returns true
\* exactly then.
JumpSucceeds(c) ==
    /\ JUMPING_ENABLED
    /\ c.isGrounded
    /\ ~(c.jumpCooldown > 0)
    /\ ~(c.energy < JumpCost(c))

\* The jumpLog entry of a jump() call that returned true: the creature as
\* the call found it.
JumpRecord(c) ==
    [creature |-> c.id, age |-> c.age, grounded |-> c.isGrounded,
     height |-> c.pos.y, floor |-> GetGroundHeight(c), rising |-> c.vel.y,
     cooldown |-> c.jumpCooldown]

\* Creature.jump
Jump(c) ==
    IF JumpSucceeds(c)
    THEN [c EXCEPT
            !.vel.y = Quot(BASE_JUMP_VELOCITY * c.dna.genes.jumpPower, 100),
            !.energy = @ - JumpCost(c),
            !.jumpCooldown = JUMP_COOLDOWN]
    ELSE c

\* Variant of CanReproduce that does not wait for the cooldown.
CanReproduceWhenFed(c) == c.energy >= REPRODUCTION_ENERGY_THRESHOLD

\* Creature.canReproduce
CanReproduce(c) ==
    /\ c.energy >= REPRODUCTION_ENERGY_THRESHOLD
    /\ c.timeSinceReproduction >= REPRODUCTION_COOLDOWN

\* Variant of Reproduce that does not rewind the parent's cooldown timer.
ReproduceKeepsTimer(w, i, rnd) ==
    LET c == w.creatures[i]
    IN  Bind(SpawnOffspring(
                 [w EXCEPT !.creatures[i].energy = @ - REPRODUCTION_ENERGY_COST],
                 c.pos.x + rnd.angle * OFFSPRING_SPAWN_DISTANCE, c.dna, rnd),
             LAMBDA w2 :
                [w2 EXCEPT !.birthLog =
                   Append(@, [parent |-> c.id,
                              parentGeneration |-> c.generation,
                              energyBefore |-> c.energy,
                              timerBefore |-> c.timeSinceReproduction,
                              parentAge |-> c.age,
                              energyAfter |-> w2.creatures[i].energy,
                              timerAfter |-> w2.creatures[i].timeSinceReproduction,
                              child |-> w2.creatures[Len(w2.creatures)].id,
                              childGeneration |->
                                 w2.creatures[Len(w2.creatures)].generation])])

\* Variant of Reproduce in which mutate() works on the parent's own genes
\* and hands the same genome to the offspring.
ReproduceInPlace(w, i, rnd) ==
    LET c == w.creatures[i]
    IN  Bind(SpawnOffspring(
                 [w EXCEPT !.creatures[i].energy = @ - REPRODUCTION_ENERGY_COST,
                           !.creatures[i].timeSinceReproduction = 0],
                 c.pos.x + rnd.angle * OFFSPRING_SPAWN_DISTANCE, c.dna, rnd),
             LAMBDA w2 :
                [w2 EXCEPT !.creatures[i].dna = w2.creatures[Len(w2.creatures)].dna,
                           !.birthLog =
                   Append(@, [parent |-> c.id,
                              parentGeneration |-> c.generation,
                              energyBefore |-> c.energy,
                              timerBefore |-> c.timeSinceReproduction,
                              parentAge |-> c.age,
                              energyAfter |-> w2.creatures[i].energy,
                              timerAfter |-> w2.creatures[i].timeSinceReproduction,
                              child |-> w2.creatures[Len(w2.creatures)].id,
                              childGeneration |->
                                 w2.creatures[Len(w2.creatures)].generation])])

\* Creature.reproduce(world), for the creature at index i.
Reproduce(w, i, rnd) ==
    LET c == w.creatures[i]
    IN  Bind(SpawnOffspring(
                 [w EXCEPT !.creatures[i].energy = @ - REPRODUCTION_ENERGY_COST,
                           !.creatures[i].timeSinceReproduction = 0],
                 c.pos.x + rnd.angle * OFFSPRING_SPAWN_DISTANCE, c.dna, rnd),
             LAMBDA w2 :
                [w2 EXCEPT !.birthLog =
                   Append(@, [parent |-> c.id,
                              parentGeneration |-> c.generation,
                              energyBefore |-> c.energy,
                              timerBefore |-> c.timeSinceReproduction,
                              parentAge |-> c.age,
                              energyAfter |-> w2.creatures[i].energy,
                              timerAfter |-> w2.creatures[i].timeSinceReproduction,
                              child |-> w2.creatures[Len(w2.creatures)].id,
                              childGeneration |->
                                 w2.creatures[Len(w2.creatures)].generation])])

\* Variant of EnergyAfterEating without the Math.min cap.
EnergyAfterEatingUncapped(c, f) == c.energy + f.nutrition

\* The energy Creature.eat assigns.
EnergyAfterEating(c, f) == Min(c.maxEnergy, c.energy + f.nutrition)

\* Creature.eat(food), for creature index i and food index j.
Eat(w, i, j) ==
    LET c == w.creatures[i]
        f == w.foodEntities[j]
    IN  [w EXCEPT
           !.creatures[i].energy = EnergyAfterEating(c, f),
           !.foodEntities[j] = Consume(f),
           !.eatLog = Append(@, [food |-> f.id, creature |-> c.id,
                                 wasConsumed |-> f.isConsumed,
                                 wasExpired |-> f.isExpired,
                                 foodAge |-> f.age,
                                 gain |-> EnergyAfterEating(c, f) - c.energy])]

----------------------------------------------------------------------------
(* SimpleBrain.js *)

\* SimpleBrain.distanceTo: horizontal distance (z = 0).
DistanceTo(c, e) == Abs(e.pos.x - c.pos.x)

\* The square of SimpleBrain.distance3DTo.
Distance3DSq(c, e) ==
    (e.pos.x - c.pos.x) * (e.pos.x - c.pos.x)
    + (e.pos.y - c.pos.y) * (e.pos.y - c.pos.y)

\* SimpleBrain.directionTo: the x component (zero when closer than 0.001).
DirectionTo(c, e) ==
    IF DistanceTo(c, e) = 0 THEN 0
    ELSE IF e.pos.x > c.pos.x THEN 1 ELSE -1

\* Variant of Visible that does not skip consumed food.
VisibleWithConsumed(c, foods) ==
    {j \in 1..Len(foods) : DistanceTo(c, foods[j]) < c.perceptionRadius}

\* The food items findNearestFood does not skip.
Visible(c, foods) ==
    {j \in 1..Len(foods) :
        /\ ~foods[j].isConsumed
        /\ DistanceTo(c, foods[j]) < c.perceptionRadius}

\* SimpleBrain.findNearestFood: the index of the nearest visible food, the
\* first one in list order among equals; 0 for null.
FindNearestFood(c, foods) ==
    IF Visible(c, foods) = {} THEN 0
    ELSE CHOOSE j \in Visible(c, foods) :
           \A k \in Visible(c, foods) :
              \/ DistanceTo(c, foods[j]) < DistanceTo(c, foods[k])
              \/ DistanceTo(c, foods[j]) = DistanceTo(c, foods[k]) /\ j <= k

\* SimpleBrain.canReachFood
CanReachFood(c, f) ==
    JUMPING_ENABLED /\ c.maxJumpHeight >= f.pos.y - c.pos.y

\* eatingRadius = EATING_DISTANCE + size * 0.5
EatingRadius(c) == EATING_DISTANCE + Quot(c.dna.genes.size, 2)

\* totalDist < eatingRadius, compared on squares.
WithinEatingRadius(c, f) ==
    Distance3DSq(c, f) < EatingRadius(c) * EatingRadius(c)

\* Variant of WantsJump that does not ask canReachFood.
WantsJumpAtAnyHeight(c, f) ==
    /\ JUMPING_ENABLED
    /\ f.pos.y - c.pos.y > Units(1)
    /\ DistanceTo(c, f) < EATING_DISTANCE * 3

\* The condition under which seekFood calls canReachFood and then jump.
WantsJump(c, f) ==
    /\ JUMPING_ENABLED
    /\ f.pos.y - c.pos.y > Units(1)
    /\ DistanceTo(c, f) < EATING_DISTANCE * 3
    /\ CanReachFood(c, f)

\* SimpleBrain.wander
Wander(c, dt, rnd) ==
    LET timer == c.brain.wanderTimer + dt
        turn == timer > c.brain.wanderChangeInterval
        dir == IF turn THEN rnd.dir ELSE c.brain.wanderDirection
    IN  [c EXCEPT !.brain.wanderTimer = IF turn THEN 0 ELSE timer,
                  !.brain.wanderDirection = dir,
                  !.vel.x = dir * c.speed]

\* Variant of Transition whose hunger test is inclusive.
TransitionInclusive(c) ==
    IF c.energy <= HUNGER_THRESHOLD THEN "seeking_food"
    ELSE IF c.energy > SATISFIED_THRESHOLD THEN "wandering"
    ELSE c.state

\* The state SimpleBrain.think assigns before executing the behavior.
Transition(c) ==
    IF c.energy < HUNGER_THRESHOLD THEN "seeking_food"
    ELSE IF c.energy > SATISFIED_THRESHOLD THEN "wandering"
    ELSE c.state

\* SimpleBrain.seekFood once findNearestFood returned the food at index j
\* (0 for null).
SeekFoodAt(w, i, j, dt, rnd) ==
    LET c == w.creatures[i]
    IN  IF j = 0
        THEN [w EXCEPT !.creatures[i] = Wander(c, dt, rnd)]
        ELSE IF WithinEatingRadius(c, w.foodEntities[j])
        THEN Bind(Eat(w, i, j),
                  LAMBDA w1 :
                     IF w1.creatures[i].energy > SATISFIED_THRESHOLD
                     THEN [w1 EXCEPT !.creatures[i].state = "wandering"]
                     ELSE w1)
        ELSE LET f == w.foodEntities[j]
                 c1 == IF WantsJump(c, f) THEN Jump(c) ELSE c
             IN  [w EXCEPT !.creatures[i] =
                    [c1 EXCEPT !.vel.x =
                       Quot(DirectionTo(c, f) * c.speed * SEEK_SPEED_TENTHS, 10)],
                           !.log.seeks =
                    Append(@, [creature |-> c.id, food |-> f.id,
                               called |-> WantsJump(c, f),
                               returned |-> WantsJump(c, f) /\ JumpSucceeds(c)]),
                           !.jumpLog =
                    IF WantsJump(c, f) /\ JumpSucceeds(c)
                    THEN Append(@, JumpRecord(c)) ELSE @]

\* SimpleBrain.seekFood, for the creature at index i.
SeekFood(w, i, dt, rnd) ==
    Bind(FindNearestFood(w.creatures[i], w.foodEntities),
         LAMBDA j : SeekFoodAt(w, i, j, dt, rnd))

\* SimpleBrain.think, for the creature at index i.
Think(w, i, dt, rnd) ==
    Bind([w EXCEPT !.creatures[i].state = Transition(w.creatures[i])],
         LAMBDA w1 :
            IF w1.creatures[i].state = "wandering"
            THEN [w1 EXCEPT !.creatures[i] = Wander(@, dt, rnd)]
            ELSE SeekFood(w1, i, dt, rnd))

----------------------------------------------------------------------------
(* Creature.update *)

\* Variant of Drain that ages the creature and leaves its energy alone.
DrainNoEnergy(c, dt) ==
    [c EXCEPT !.age = @ + dt,
              !.timeSinceReproduction = @ + dt,
              !.jumpCooldown = IF @ > 0 THEN @ - dt ELSE @]

\* Aging, cooldown timer and energy drain: the first lines of Creature.update.
Drain(c, dt) ==
    [c EXCEPT !.age = @ + dt,
              !.timeSinceReproduction = @ + dt,
              !.energy = @ - Quot(c.energyDrainRate * dt, 100),
              !.jumpCooldown = IF @ > 0 THEN @ - dt ELSE @]

\* Creature.update after the death test: reproduction, the brain, physics.
Live(w, i, dt, rnd) ==
    Bind(IF CanReproduce(w.creatures[i]) THEN Reproduce(w, i, rnd) ELSE w,
         LAMBDA w2 :
            Bind(Think(w2, i, dt, rnd),
                 LAMBDA w3 :
                    [w3 EXCEPT !.creatures[i] =
                       EntityUpdate(@, dt, GetGroundHeight(@), TRUE, w3.radius),
                               !.log.thoughts =
                       Append(@, [id |-> w2.creatures[i].id,
                                  handed |-> w2.creatures[i].state,
                                  left |-> w3.creatures[i].state])]))

\* Variant of CreatureUpdate that runs reproduction, the brain and physics
\* before it marks the creature dead.
CreatureUpdateThenDie(w, i, dt, rnd) ==
    Bind([w EXCEPT !.creatures[i] = Drain(@, dt)],
         LAMBDA w1 :
            IF w1.creatures[i].energy <= 0
            THEN Bind(Live(w1, i, dt, rnd),
                      LAMBDA w2 : [w2 EXCEPT !.creatures[i].isDead = TRUE])
            ELSE Live(w1, i, dt, rnd))

\* Creature.update(deltaTime, world), for the creature at index i.
CreatureUpdate(w, i, dt, rnd) ==
    Bind([w EXCEPT !.creatures[i] = Drain(@, dt)],
         LAMBDA w1 :
            IF w1.creatures[i].energy <= 0
            THEN [w1 EXCEPT !.creatures[i].isDead = TRUE]
            ELSE Live(w1, i, dt, rnd))

----------------------------------------------------------------------------
(* Tree.js *)

\* Tree.constructor(x, z).  r: spawnInterval (60 / spawnRate), phase (the
\* random initial timeSinceLastSpawn) and height.
Tree(id, x, r) ==
    [id |-> id, pos |-> [x |-> x, y |-> 0], vel |-> [x |-> 0, y |-> 0],
     isGrounded |-> TRUE, spawnInterval |-> r.spawnInterval,
     timeSinceLastSpawn |-> r.phase, foodItems |-> <<>>, height |-> r.height]

\* Tree.spawnFood(world), for the tree at index k.  fd: treeAngle (cos),
\* treeDist, heightFrac (Math.pow(Math.random(), ...) in hundredths) and
\* expiration.
TreeSpawnFood(w, k, fd) ==
    LET t == w.trees[k]
        foodX == t.pos.x + fd.treeAngle * fd.treeDist
        foodY == Quot(fd.heightFrac * t.height, 100)
    IN  IF Abs(foodX) < w.radius
        THEN [SpawnFoodIn(w, foodX, foodY, TRUE, fd.expiration)
                EXCEPT !.trees[k].foodItems = Append(@, w.nextEntityId)]
        ELSE w

\* The filter of Tree.update: the tracked food still in the world and not
\* consumed.
Outstanding(t, foods) ==
    SelectSeq(t.foodItems,
              LAMBDA id : \E j \in 1..Len(foods) :
                             foods[j].id = id /\ ~foods[j].isConsumed)

\* Variant of BelowCap that admits one item more.
BelowOrAtCap(items) == Len(items) <= MAX_FOOD_PER_TREE

\* Whether Tree.update may spawn once its timer has fired.
BelowCap(items) == Len(items) < MAX_FOOD_PER_TREE

\* Tree.update once the timer has been advanced and the tracked list
\* filtered.
SpawnWhenDue(w, k, rnd) ==
    IF w.trees[k].timeSinceLastSpawn >= w.trees[k].spawnInterval
    THEN [(IF BelowCap(w.trees[k].foodItems) THEN TreeSpawnFood(w, k, rnd) ELSE w)
            EXCEPT !.trees[k].timeSinceLastSpawn = 0]
    ELSE w

\* Tree.update(deltaTime, world), for the tree at index k.
TreeUpdate(w, k, dt, rnd) ==
    LET t0 == EntityUpdate(w.trees[k], dt, GROUND_LEVEL, FALSE, w.radius)
    IN  Bind([w EXCEPT !.trees[k] =
                 [t0 EXCEPT !.timeSinceLastSpawn = @ + dt,
                            !.foodItems = Outstanding(t0, w.foodEntities)],
                       !.log.order = Append(@, Step("tree", t0.id)),
                       !.log.counts =
                          Append(@, [tree |-> t0.id,
                                     counted |-> Len(Outstanding(t0, w.foodEntities))])],
             LAMBDA w1 : SpawnWhenDue(w1, k, rnd))

\* Tree.spawnInitialFood: one spawnFood per draw in fds.
RECURSIVE SpawnInitialFood(_, _, _, _)
SpawnInitialFood(w, k, fds, n) ==
    IF n > Len(fds) THEN w
    ELSE Bind(TreeSpawnFood(w, k, fds[n]),
              LAMBDA w1 : SpawnInitialFood(w1, k, fds, n + 1))

----------------------------------------------------------------------------
(* World.js: the passes of a tick *)

\* Variant of UpdateAndBury that goes on to update a creature born during
\* the update.
UpdateAndBuryWithNewborn(w, i, dt, rnd) ==
    Bind(CreatureUpdate(
            [w EXCEPT !.log.order = Append(@, Step("creature", w.creatures[i].id))],
            i, dt, rnd),
         LAMBDA w1 :
            Bind(IF Len(w1.creatures) > Len(w.creatures)
                 THEN CreatureUpdate(
                         [w1 EXCEPT !.log.order =
                             Append(@, Step("creature",
                                            w1.creatures[Len(w1.creatures)].id))],
                         Len(w1.creatures), dt, rnd)
                 ELSE w1,
                 LAMBDA w2 :
                    IF w2.creatures[i].isDead
                    THEN RemoveCreature(
                            [w2 EXCEPT !.log.order =
                                          Append(@, Step("removed", w2.creatures[i].id)),
                                       !.log.corpses = Append(@, w2.creatures[i])],
                            w2.creatures[i].id)
                    ELSE w2))

\* The body of the creature loop: update, then removeCreature when it died.
UpdateAndBury(w, i, dt, rnd) ==
    Bind(CreatureUpdate(
            [w EXCEPT !.log.order = Append(@, Step("creature", w.creatures[i].id))],
            i, dt, rnd),
         LAMBDA w1 :
            IF w1.creatures[i].isDead
            THEN RemoveCreature(
                    [w1 EXCEPT !.log.order =
                                  Append(@, Step("removed", w1.creatures[i].id)),
                               !.log.corpses = Append(@, w1.creatures[i])],
                    w1.creatures[i].id)
            ELSE w1)

\* The creature loop of World.update and World.stepForward, from index i
\* down to 1.
RECURSIVE UpdateCreatures(_, _, _, _)
UpdateCreatures(w, i, dt, rnd) ==
    IF i = 0 THEN w
    ELSE Bind(UpdateAndBury(w, i, dt, rnd),
              LAMBDA w1 : UpdateCreatures(w1, i - 1, dt, rnd))

\* Every food updated (both loops do this).
FoodsUpdated(w, dt) ==
    [w EXCEPT !.foodEntities =
        [j \in 1..Len(w.foodEntities) |-> FoodUpdate(w.foodEntities[j], dt, w.radius)],
              !.log.order =
        @ \o [j \in 1..Len(w.foodEntities) |-> Step("food", w.foodEntities[j].id)]]

\* The splice of World.update's food loop.
Prune(foods) == SelectSeq(foods, LAMBDA f : ~(f.isConsumed \/ f.isExpired))

\* The tree loop of World.update.
RECURSIVE UpdateTrees(_, _, _, _)
UpdateTrees(w, k, dt, rnd) ==
    IF k > Len(w.trees) THEN w
    ELSE Bind(TreeUpdate(w, k, dt, rnd),
              LAMBDA w1 : UpdateTrees(w1, k + 1, dt, rnd))

\* The food loop of World.update: every food updated, then the splice.
UpdateFoods(w, dt) ==
    Bind(FoodsUpdated(w, dt),
         LAMBDA w1 : [w1 EXCEPT !.foodEntities = Prune(@),
                                !.log.order = Append(@, Step("prune", 0))])

\* The three passes of an accepted World.update frame.
Tick(w, dt, rnd) ==
    Bind(UpdateCreatures(w, Len(w.creatures), dt, rnd),
         LAMBDA w1 :
            Bind(UpdateFoods(w1, dt),
                 LAMBDA w2 : UpdateTrees(w2, 1, dt, rnd)))

\* The two passes of World.stepForward.
StepTick(w, rnd) ==
    Bind(UpdateCreatures(w, Len(w.creatures), STEP_DELTA, rnd),
         LAMBDA w1 : FoodsUpdated(w1, STEP_DELTA))

\* Math.max(CREATURE_SLIDER_MIN, Math.min(SPEED_SLIDER_MAX, scale))
ClampTimeScale(scale) == Max(CREATURE_SLIDER_MIN, Min(SPEED_SLIDER_MAX, scale))

\* deltaTime = rawDeltaTime * timeScale
Scaled(raw, scale) == Quot(raw * scale, 10)

\* The tick record of the current state.
World ==
    [creatures |-> creatures, foodEntities |-> foodEntities, trees |-> trees,
     totalBirths |-> totalBirths, totalDeaths |-> totalDeaths,
     nextEntityId |-> nextEntityId, eatLog |-> eatLog, birthLog |-> birthLog,
     jumpLog |-> jumpLog, log |-> NoLog, radius |-> usableRadius]

\* The tree and creature loops of World.reset.  ds.trees and ds.creatures
\* are the draws, one record per tree and per creature.
RECURSIVE ResetTrees(_, _, _)
ResetTrees(w, ds, k) ==
    IF k > Len(ds) THEN w
    ELSE Bind(SpawnInitialFood(
                  [w EXCEPT !.trees = Append(@, Tree(w.nextEntityId, ds[k].x, ds[k])),
                            !.nextEntityId = @ + 1],
                  k, ds[k].foods, 1),
              LAMBDA w1 : ResetTrees(w1, ds, k + 1))

RECURSIVE ResetCreatures(_, _, _)
ResetCreatures(w, ds, i) ==
    IF i > Len(ds) THEN w
    ELSE Bind(SpawnCreatureIn(w, ds[i].x, ds[i]),
              LAMBDA w1 : ResetCreatures(w1, ds, i + 1))

\* World.reset's population of a cleared world.
Repopulate(w, ds) ==
    Bind(ResetTrees(w, ds.trees, 1),
         LAMBDA w1 : ResetCreatures(w1, ds.creatures, 1))

----------------------------------------------------------------------------
(* World.js: the operations, as actions *)

\* What an operation leaves of the simulation when it does no work.
SimUnchanged ==
    UNCHANGED <<creatures, foodEntities, trees, time, totalBirths, totalDeaths,
                isExtinct, isPaused, nextEntityId, eatLog, birthLog, jumpLog>>

\* The primed simulation state after a pass that produced w and advanced
\* the clock by dt.
Becomes(w, dt) ==
    /\ creatures' = w.creatures
    /\ foodEntities' = w.foodEntities
    /\ trees' = w.trees
    /\ totalBirths' = w.totalBirths
    /\ totalDeaths' = w.totalDeaths
    /\ nextEntityId' = w.nextEntityId
    /\ eatLog' = w.eatLog
    /\ birthLog' = w.birthLog
    /\ jumpLog' = w.jumpLog
    /\ time' = time + dt

\* Variant of UpdateAt that also skips a frame whose delta equals
\* MAX_DELTA_TIME.
UpdateAtBelowMax(timestamp, last, rnd, op) ==
    IF ~isPaused /\ ~isExtinct
    THEN LET rawDeltaTime == timestamp - last
         IN  /\ lastTimestamp' = timestamp
             /\ IF rawDeltaTime >= MAX_DELTA_TIME
                THEN /\ SimUnchanged
                     /\ lastOp' = [op |-> op, ticked |-> FALSE]
                     /\ opLog' = NoLog
                ELSE LET deltaTime == Scaled(rawDeltaTime, timeScale)
                     IN  \E w \in {Tick(World, deltaTime, rnd)} :
                            LET extinction == ~isExtinct /\ Len(w.creatures) = 0
                            IN  /\ Becomes(w, deltaTime)
                                /\ isExtinct' = (isExtinct \/ extinction)
                                /\ isPaused' = (isPaused \/ extinction)
                                /\ lastOp' = [op |-> op, ticked |-> TRUE]
                                /\ opLog' = w.log
    ELSE /\ lastTimestamp' = last
         /\ SimUnchanged
         /\ lastOp' = [op |-> op, ticked |-> FALSE]
         /\ opLog' = NoLog

\* World.update(timestamp) with lastTimestamp read as last.
UpdateAt(timestamp, last, rnd, op) ==
    IF ~isPaused /\ ~isExtinct
    THEN LET rawDeltaTime == timestamp - last
         IN  /\ lastTimestamp' = timestamp
             /\ IF rawDeltaTime > MAX_DELTA_TIME
                THEN /\ SimUnchanged
                     /\ lastOp' = [op |-> op, ticked |-> FALSE]
                     /\ opLog' = NoLog
                ELSE LET deltaTime == Scaled(rawDeltaTime, timeScale)
                     IN  \E w \in {Tick(World, deltaTime, rnd)} :
                            LET extinction == ~isExtinct /\ Len(w.creatures) = 0
                            IN  /\ Becomes(w, deltaTime)
                                /\ isExtinct' = (isExtinct \/ extinction)
                                /\ isPaused' = (isPaused \/ extinction)
                                /\ lastOp' = [op |-> op, ticked |-> TRUE]
                                /\ opLog' = w.log
    ELSE /\ lastTimestamp' = last
         /\ SimUnchanged
         /\ lastOp' = [op |-> op, ticked |-> FALSE]
         /\ opLog' = NoLog

\* World.start(): lastTimestamp = performance.now(), then the first update().
Start(rnd) ==
    /\ ~started
    /\ started' = TRUE
    /\ UpdateAt(now, now, rnd, "start")
    /\ UNCHANGED <<timeScale, usableRadius, now, dna, budget>>

\* A frame: requestAnimationFrame calls update(t) after gap more wall time.
Update(gap, rnd) ==
    /\ started
    /\ budget.frames > 0
    /\ budget' = [budget EXCEPT !.frames = @ - 1]
    /\ now' = now + gap
    /\ UpdateAt(now + gap, lastTimestamp, rnd, "update")
    /\ UNCHANGED <<timeScale, usableRadius, started, dna>>

\* Variant of TogglePause that leaves lastTimestamp alone when unpausing.
TogglePauseStale ==
    /\ started
    /\ budget.calls > 0
    /\ budget' = [budget EXCEPT !.calls = @ - 1]
    /\ isPaused' = ~isPaused
    /\ lastOp' = [op |-> "togglePause", ticked |-> FALSE]
    /\ opLog' = NoLog
    /\ UNCHANGED <<creatures, foodEntities, trees, time, lastTimestamp, timeScale,
                   totalBirths, totalDeaths, isExtinct, usableRadius,
                   nextEntityId, now, started, eatLog, birthLog, jumpLog,
                   dna>>

\* World.togglePause()
TogglePause ==
    /\ started
    /\ budget.calls > 0
    /\ budget' = [budget EXCEPT !.calls = @ - 1]
    /\ isPaused' = ~isPaused
    /\ lastTimestamp' = IF ~isPaused' THEN now ELSE lastTimestamp
    /\ lastOp' = [op |-> "togglePause", ticked |-> FALSE]
    /\ opLog' = NoLog
    /\ UNCHANGED <<creatures, foodEntities, trees, time, timeScale, totalBirths,
                   totalDeaths, isExtinct, usableRadius, nextEntityId, now,
                   started, eatLog, birthLog, jumpLog,
                   dna>>

\* World.stepForward()
StepForward(rnd) ==
    /\ started
    /\ budget.frames > 0
    /\ budget' = [budget EXCEPT !.frames = @ - 1]
    /\ IF ~isPaused
       THEN /\ SimUnchanged
            /\ lastOp' = [op |-> "stepForward", ticked |-> FALSE]
            /\ opLog' = NoLog
       ELSE /\ \E w \in {StepTick(World, rnd)} :
                  Becomes(w, STEP_DELTA) /\ opLog' = w.log
            /\ UNCHANGED <<isExtinct, isPaused>>
            /\ lastOp' = [op |-> "stepForward", ticked |-> TRUE]
    /\ UNCHANGED <<lastTimestamp, timeScale, usableRadius, now, started, dna>>

\* World.setTimeScale(scale)
SetTimeScale(scale) ==
    /\ started
    /\ budget.calls > 0
    /\ budget' = [budget EXCEPT !.calls = @ - 1]
    /\ timeScale' = ClampTimeScale(scale)
    /\ lastOp' = [op |-> "setTimeScale", ticked |-> FALSE]
    /\ opLog' = [NoLog EXCEPT !.request = <<scale>>]
    /\ UNCHANGED <<creatures, foodEntities, trees, time, isPaused, lastTimestamp,
                   totalBirths, totalDeaths, isExtinct, usableRadius,
                   nextEntityId, now, started, eatLog, birthLog, jumpLog,
                   dna>>

\* World.spawnCreature(x, z) called from the control surface.
SpawnCreature(x, rnd) ==
    /\ started
    /\ budget.spawns > 0
    /\ budget' = [budget EXCEPT !.spawns = @ - 1]
    /\ LET w == SpawnCreatureIn(World, x, rnd)
       IN  /\ creatures' = w.creatures
           /\ nextEntityId' = w.nextEntityId
    /\ lastOp' = [op |-> "spawnCreature", ticked |-> FALSE]
    /\ opLog' = NoLog
    /\ UNCHANGED <<foodEntities, trees, time, isPaused, lastTimestamp, timeScale,
                   totalBirths, totalDeaths, isExtinct, usableRadius, now,
                   started, eatLog, birthLog, jumpLog,
                   dna>>

\* World.spawnFood(x, z) called from the control surface (y defaults to 0.5).
SpawnFood(x, expirationTime) ==
    /\ started
    /\ budget.spawns > 0
    /\ budget' = [budget EXCEPT !.spawns = @ - 1]
    /\ LET w == SpawnFoodIn(World, x, 50, FALSE, expirationTime)
       IN  /\ foodEntities' = w.foodEntities
           /\ nextEntityId' = w.nextEntityId
    /\ lastOp' = [op |-> "spawnFood", ticked |-> FALSE]
    /\ opLog' = NoLog
    /\ UNCHANGED <<creatures, trees, time, isPaused, lastTimestamp, timeScale,
                   totalBirths, totalDeaths, isExtinct, usableRadius, now,
                   started, eatLog, birthLog, jumpLog,
                   dna>>

\* Variant of Reset that leaves the pause flag as it is.
ResetKeepsPause(islandRadius, ds) ==
    /\ started
    /\ budget.resets > 0
    /\ budget' = [budget EXCEPT !.resets = @ - 1]
    /\ usableRadius' = islandRadius - Units(2)
    /\ \E w \in {Repopulate([World EXCEPT !.creatures = <<>>,
                                          !.foodEntities = <<>>,
                                          !.trees = <<>>, !.totalBirths = 0,
                                          !.totalDeaths = 0,
                                          !.radius = islandRadius - Units(2)],
                           ds)} :
          /\ Becomes(w, 0 - time)
          /\ isExtinct' = FALSE
          /\ opLog' = [w.log EXCEPT
                         !.request = <<Len(ds.creatures), Len(ds.trees), islandRadius>>]
    /\ lastOp' = [op |-> "reset", ticked |-> FALSE]
    /\ UNCHANGED <<isPaused, lastTimestamp, timeScale, now, started, dna>>

\* World.reset(creatureCount, treeCount, islandRadius): ds.creatures has
\* creatureCount draws and ds.trees has treeCount draws.
Reset(islandRadius, ds) ==
    /\ started
    /\ budget.resets > 0
    /\ budget' = [budget EXCEPT !.resets = @ - 1]
    /\ usableRadius' = islandRadius - Units(2)
    /\ \E w \in {Repopulate([World EXCEPT !.creatures = <<>>,
                                          !.foodEntities = <<>>,
                                          !.trees = <<>>, !.totalBirths = 0,
                                          !.totalDeaths = 0,
                                          !.radius = islandRadius - Units(2)],
                           ds)} :
          /\ Becomes(w, 0 - time)
          /\ isExtinct' = FALSE
          /\ isPaused' = FALSE
          /\ opLog' = [w.log EXCEPT
                         !.request = <<Len(ds.creatures), Len(ds.trees), islandRadius>>]
    /\ lastOp' = [op |-> "reset", ticked |-> FALSE]
    /\ UNCHANGED <<lastTimestamp, timeScale, now, started, dna>>

\* parentDNA.mutate() applied to the genome under test.
MutateDNA(rolls) ==
    /\ budget.mutations > 0
    /\ budget' = [budget EXCEPT !.mutations = @ - 1]
    /\ dna' = Mutate(dna, rolls)
    /\ UNCHANGED worldVars

----------------------------------------------------------------------------
(* Bounds and the sampled inputs *)

MaxFrames == 3      \* Spec: frames and stepForward calls explored
MaxCalls == 2       \* Spec: togglePause and setTimeScale calls explored
MaxSpawns == 1      \* Spec: spawnCreature and spawnFood calls explored
MaxResets == 2      \* Spec: reset calls explored
LifeFrames == 7      \* SpecLife: frames and stepForward calls explored
LifeCalls == 2       \* SpecLife: togglePause calls explored
DeepFrames == 10     \* SpecFrames: frames explored
MaxMutations == 10   \* SpecDNA: mutate() calls explored
MethodCalls == 3     \* SpecCalls: direct eat() and jump() calls explored
PassFrames == 5      \* SpecPass: frames and stepForward calls explored
PassCalls == 1       \* SpecPass: togglePause calls explored
RunFrames == 8       \* SpecRun: frames explored
SpeedFrames == 3     \* SpecSpeed: frames explored
SpeedCalls == 2      \* SpecSpeed: setTimeScale calls explored

\* Genomes new DNA() can draw: every gene in [0.8, 1.2), hue in [0, 1).
PlainGenes ==
    [speed |-> 100, perception |-> 100, efficiency |-> 100, size |-> 100,
     hue |-> 50, jumpPower |-> 100]

NoRolls == [g \in GeneNames |-> NoRoll]
GrowRolls == [NoRolls EXCEPT !.size = 9, !.hue = -10]

\* Food expiration times.  config.js defines neither EXPIRATION_TIME_MEAN
\* nor EXPIRATION_TIME_VARIANCE, which makes the product NaN; the finite
\* sample stands for a configuration that defines both, scaled down so that
\* expiry falls inside the explored horizon.
ShortExpiration == Sec(5) + 5

\* The random draws of one frame.
CalmDraw ==
    [angle |-> -1, dir |-> 1, fuzz |-> 100, rolls |-> NoRolls,
     treeAngle |-> 1, treeDist |-> Units(3), heightFrac |-> 0,
     expiration |-> NaN]

WildDraw ==
    [angle |-> 1, dir |-> -1, fuzz |-> 80, rolls |-> GrowRolls,
     treeAngle |-> 1, treeDist |-> Units(4), heightFrac |-> 50,
     expiration |-> ShortExpiration]

\* Wall-clock gaps between frames: none, one second (the largest accepted
\* delta) and just above it.
Gaps == {0, MAX_DELTA_TIME, MAX_DELTA_TIME + 1}

\* Time scales the control surface asks for: 5.0 and 15.0.
Scales == {50, SPEED_SLIDER_MAX}

\* A creature draw of World.reset / spawnCreature.
CreatureDraw(x, energy) ==
    [x |-> x, genes |-> PlainGenes, energy |-> energy, dir |-> 1, fuzz |-> 100]

\* A food draw of Tree.spawnFood.
FoodDraw(dist, frac, expiration) ==
    [treeAngle |-> 1, treeDist |-> dist, heightFrac |-> frac,
     expiration |-> expiration]

\* A tree draw of Tree.createForest and spawnInitialFood.
TreeDraw(x, foods) ==
    [x |-> x, spawnInterval |-> Sec(10) + 1, phase |-> 0, height |-> Units(5),
     foods |-> foods]

\* A tree whose three initial fruits hang 3 units out: two at the ground,
\* one at half height.
NearTree ==
    TreeDraw(Units(18), <<FoodDraw(Units(3), 0, NaN),
                          FoodDraw(Units(3), 0, NaN),
                          FoodDraw(Units(3), 50, NaN)>>)

\* A tree whose three initial fruits all lie at the ground, 3 units out.
GroundTree ==
    TreeDraw(Units(18), <<FoodDraw(Units(3), 0, NaN),
                          FoodDraw(Units(3), 0, NaN),
                          FoodDraw(Units(3), 0, NaN)>>)

\* A tree out of every sampled creature's perception.
FarTree ==
    TreeDraw(-Units(15), <<FoodDraw(Units(3), 0, NaN),
                           FoodDraw(Units(3), 0, NaN),
                           FoodDraw(Units(3), 0, NaN)>>)

EmptyLayout == [creatures |-> <<>>, trees |-> <<>>]

PairLayout ==
    [creatures |-> <<CreatureDraw(Units(22), En(50)),
                     CreatureDraw(Units(22), En(50))>>,
     trees |-> <<NearTree>>]

SoloLayout ==
    [creatures |-> <<CreatureDraw(Units(22), En(50) + 100)>>,
     trees |-> <<TreeDraw(Units(18),
                          <<FoodDraw(Units(4), 0, ShortExpiration)>>)>>]

GroveLayout ==
    [creatures |-> <<CreatureDraw(Units(22), En(50))>>,
     trees |-> <<GroundTree, GroundTree, FarTree>>]

\* The populations reset is asked to build.
Layouts == {EmptyLayout, SoloLayout}

IslandRadii == {Units(25)}

----------------------------------------------------------------------------
(* The world specification: every operation, from construction *)

\* new World(renderer)
Init ==
    /\ creatures = <<>>
    /\ foodEntities = <<>>
    /\ trees = <<>>
    /\ time = 0
    /\ isPaused = FALSE
    /\ lastTimestamp = 0
    /\ timeScale = DEFAULT_SPEED
    /\ totalBirths = 0
    /\ totalDeaths = 0
    /\ isExtinct = FALSE
    /\ usableRadius = Units(48)
    /\ nextEntityId = 0
    /\ now = 0
    /\ started = FALSE
    /\ eatLog = <<>>
    /\ birthLog = <<>>
    /\ jumpLog = <<>>
    /\ lastOp = [op |-> "new", ticked |-> FALSE]
    /\ opLog = NoLog
    /\ dna = NewDNA(PlainGenes)
    /\ budget = [frames |-> MaxFrames, calls |-> MaxCalls, spawns |-> MaxSpawns,
                 resets |-> MaxResets, mutations |-> 0]

Next ==
    \/ Start(CalmDraw)
    \/ \E gap \in Gaps : Update(gap, CalmDraw)
    \/ Update(MAX_DELTA_TIME, WildDraw)
    \/ TogglePause
    \/ StepForward(CalmDraw)
    \/ \E s \in Scales : SetTimeScale(s)
    \/ \E r \in IslandRadii, ds \in Layouts : Reset(r, ds)

Spec == Init /\ [][Next]_vars

\* The same with the control surface's two spawn buttons.
NextPanel ==
    \/ Next
    \/ SpawnCreature(Units(22), CreatureDraw(Units(22), En(50)))
    \/ SpawnFood(Units(20), ShortExpiration)

SpecPanel == Init /\ [][NextPanel]_vars

\* Construction, start, frames and resets, among them resets that ask for
\* an island of negative radius.
NextSetup ==
    \/ Start(CalmDraw)
    \/ \E gap \in Gaps : Update(gap, CalmDraw)
    \/ \E r \in {Units(25), -Units(25)}, ds \in Layouts : Reset(r, ds)

SpecSetup == Init /\ [][NextSetup]_vars

----------------------------------------------------------------------------
(* The specifications of a running population.  init() calls start() and   *)
(* then builds the control panel, whose constructor calls reset; these     *)
(* specifications begin after that reset and a speed setting of 15.        *)

\* The state after start(), reset(layout) and setTimeScale(15), with the
\* given numbers of frames and control-surface calls left to explore.
Populated(layouts, frames, calls) ==
    /\ \E ds \in layouts :
         \E w \in {Repopulate([creatures |-> <<>>, foodEntities |-> <<>>,
                               trees |-> <<>>, totalBirths |-> 0,
                               totalDeaths |-> 0, nextEntityId |-> 0,
                               eatLog |-> <<>>, birthLog |-> <<>>,
                               jumpLog |-> <<>>,
                               log |-> NoLog, radius |-> Units(23)], ds)} :
            /\ creatures = w.creatures
            /\ foodEntities = w.foodEntities
            /\ trees = w.trees
            /\ nextEntityId = w.nextEntityId
    /\ time = 0
    /\ isPaused = FALSE
    /\ lastTimestamp = 0
    /\ timeScale = SPEED_SLIDER_MAX
    /\ totalBirths = 0
    /\ totalDeaths = 0
    /\ isExtinct = FALSE
    /\ usableRadius = Units(23)
    /\ now = 0
    /\ started = TRUE
    /\ eatLog = <<>>
    /\ birthLog = <<>>
    /\ jumpLog = <<>>
    /\ lastOp = [op |-> "setTimeScale", ticked |-> FALSE]
    /\ opLog = [NoLog EXCEPT !.request = <<SPEED_SLIDER_MAX>>]
    /\ dna = NewDNA(PlainGenes)
    /\ budget = [frames |-> frames, calls |-> calls, spawns |-> 0, resets |-> 0,
                 mutations |-> 0]

\* Frames, pausing and single steps.
InitLife == Populated({PairLayout, GroveLayout}, LifeFrames, LifeCalls)

NextLife ==
    \/ \E gap \in {0, MAX_DELTA_TIME} : Update(gap, CalmDraw)
    \/ Update(MAX_DELTA_TIME, WildDraw)
    \/ TogglePause
    \/ StepForward(CalmDraw)

SpecLife == InitLife /\ [][NextLife]_vars

\* Frames only, over more of them: generations and the trees' stock.
InitFrames == Populated({GroveLayout}, DeepFrames, 0)

NextFrames ==
    \/ \E gap \in {0, MAX_DELTA_TIME} : Update(gap, CalmDraw)
    \/ Update(MAX_DELTA_TIME, WildDraw)

SpecFrames == InitFrames /\ [][NextFrames]_vars

\* A forager beside a tree with ground-level fruit and a creature out of
\* sight of any food, in both list orders.
ForagerFirst ==
    [creatures |-> <<CreatureDraw(Units(22), En(50)),
                     [CreatureDraw(-Units(20), En(50)) EXCEPT !.dir = -1]>>,
     trees |-> <<GroundTree>>]

ForagerLast ==
    [creatures |-> <<[CreatureDraw(-Units(20), En(50)) EXCEPT !.dir = -1],
                     CreatureDraw(Units(22), En(50))>>,
     trees |-> <<GroundTree>>]

\* Frames of no, half a second and one second of wall time at speed 15,
\* one pause and single steps: births and deaths in the same tick.
InitPass == Populated({ForagerFirst, ForagerLast}, PassFrames, PassCalls)

NextPass ==
    \/ \E gap \in {0, MAX_DELTA_TIME \div 2, MAX_DELTA_TIME} : Update(gap, CalmDraw)
    \/ TogglePause
    \/ StepForward(CalmDraw)

SpecPass == InitPass /\ [][NextPass]_vars

\* Frames only, every one of them with wall time elapsed and accepted: the
\* frame loop of World.update reschedules itself at the end of every call,
\* so a further frame always comes.
InitRun == Populated({ForagerFirst, ForagerLast}, RunFrames, 0)

NextRun ==
    \/ \E gap \in {MAX_DELTA_TIME \div 2, MAX_DELTA_TIME} : Update(gap, CalmDraw)
    \/ Update(MAX_DELTA_TIME \div 2, WildDraw)

SpecRun == InitRun /\ [][NextRun]_vars /\ WF_vars(NextRun)

\* The speeds setTimeScale is asked for, in tenths: 0 and 15.2 lie outside
\* the speed slider's range [0.2, 15.0]; 0.2, 0.6, 1.0 and 15.0 inside it.
SpeedRequests == {0, SPEED_SLIDER_MIN, 6, DEFAULT_SPEED, SPEED_SLIDER_MAX,
                  SPEED_SLIDER_MAX + 2}

\* Frames and speed settings.
InitSpeed == Populated({ForagerFirst}, SpeedFrames, SpeedCalls)

NextSpeed ==
    \/ \E gap \in Gaps : Update(gap, CalmDraw)
    \/ \E s \in SpeedRequests : SetTimeScale(s)

SpecSpeed == InitSpeed /\ [][NextSpeed]_vars

----------------------------------------------------------------------------
(* The genome specification: mutate() applied again and again to a          *)
(* generation-0 genome.                                                     *)

\* The extremes of new DNA(): every multiplier 0.8 or 1.19, hue 0 or 0.99.
LowGenes == [g \in GeneNames |-> IF g = "hue" THEN 0 ELSE 80]
HighGenes == [g \in GeneNames |-> IF g = "hue" THEN 99 ELSE 119]

\* Mutation rolls: every gene at the lowest delta, every gene at the
\* highest, size alone at the highest.
AllDown == [g \in GeneNames |-> -(MUTATION_AMOUNT \div 2)]
AllUp == [g \in GeneNames |-> MUTATION_AMOUNT \div 2 - 1]
SizeUp == [NoRolls EXCEPT !.size = MUTATION_AMOUNT \div 2 - 1]

RollMenu == {AllDown, AllUp, SizeUp}

InitDNA ==
    /\ creatures = <<>>
    /\ foodEntities = <<>>
    /\ trees = <<>>
    /\ time = 0
    /\ isPaused = FALSE
    /\ lastTimestamp = 0
    /\ timeScale = DEFAULT_SPEED
    /\ totalBirths = 0
    /\ totalDeaths = 0
    /\ isExtinct = FALSE
    /\ usableRadius = Units(48)
    /\ nextEntityId = 0
    /\ now = 0
    /\ started = FALSE
    /\ eatLog = <<>>
    /\ birthLog = <<>>
    /\ jumpLog = <<>>
    /\ lastOp = [op |-> "new", ticked |-> FALSE]
    /\ opLog = NoLog
    /\ dna \in {[NewDNA(LowGenes) EXCEPT !.generation = 0],
                [NewDNA(HighGenes) EXCEPT !.generation = 0]}
    /\ budget = [frames |-> 0, calls |-> 0, spawns |-> 0, resets |-> 0,
                 mutations |-> MaxMutations]

NextDNA == \E rolls \in RollMenu : MutateDNA(rolls)

SpecDNA == InitDNA /\ [][NextDNA]_vars

----------------------------------------------------------------------------
(* The methods specification: Creature.eat and Creature.jump called         *)
(* directly, in any order, on one creature and one food item.               *)

\* creature.eat(food), for creature index i and food index j.
CallEat(i, j) ==
    /\ budget.calls > 0
    /\ budget' = [budget EXCEPT !.calls = @ - 1]
    /\ \E w \in {Eat(World, i, j)} :
          /\ creatures' = w.creatures
          /\ foodEntities' = w.foodEntities
          /\ eatLog' = w.eatLog
    /\ lastOp' = [op |-> "eat", ticked |-> FALSE]
    /\ opLog' = NoLog
    /\ UNCHANGED <<trees, time, isPaused, lastTimestamp, timeScale, totalBirths,
                   totalDeaths, isExtinct, usableRadius, nextEntityId, now,
                   started, birthLog, jumpLog,
                   dna>>

\* creature.jump(), for creature index i.
CallJump(i) ==
    /\ budget.calls > 0
    /\ budget' = [budget EXCEPT !.calls = @ - 1]
    /\ creatures' = [creatures EXCEPT ![i] = Jump(@)]
    /\ jumpLog' = IF JumpSucceeds(creatures[i])
                  THEN Append(jumpLog, JumpRecord(creatures[i])) ELSE jumpLog
    /\ lastOp' = [op |-> "jump", ticked |-> FALSE]
    /\ opLog' = [NoLog EXCEPT !.returned = <<JumpSucceeds(creatures[i])>>]
    /\ UNCHANGED <<foodEntities, trees, time, isPaused, lastTimestamp, timeScale,
                   totalBirths, totalDeaths, isExtinct, usableRadius,
                   nextEntityId, now, started, eatLog, birthLog, dna>>

\* creature.brain.think(deltaTime, world) with the deltaTime of a single
\* step, for creature index i.
CallThink(i) ==
    /\ budget.calls > 0
    /\ budget' = [budget EXCEPT !.calls = @ - 1]
    /\ \E w \in {Think(World, i, STEP_DELTA, CalmDraw)} :
          /\ creatures' = w.creatures
          /\ foodEntities' = w.foodEntities
          /\ eatLog' = w.eatLog
          /\ jumpLog' = w.jumpLog
          /\ opLog' = w.log
    /\ lastOp' = [op |-> "think", ticked |-> FALSE]
    /\ UNCHANGED <<trees, time, isPaused, lastTimestamp, timeScale, totalBirths,
                   totalDeaths, isExtinct, usableRadius, nextEntityId, now,
                   started, birthLog, dna>>

\* Where the food item hangs, as <<x, y>>: beside the creature; 2 units
\* out and 1 or 1.01 above the height a grounded creature stands at; 1 unit
\* out and 2, 3 or 3.5 above it; 4.5 units out and 2 above it.
FoodSpots ==
    {<<Units(1), 50>>, <<Units(2), Units(1) + 50>>, <<Units(2), Units(1) + 51>>,
     <<Units(1), Units(2) + 50>>, <<Units(1), Units(3) + 50>>,
     <<Units(1), Units(4)>>, <<EATING_DISTANCE * 3, Units(2) + 50>>}

\* A genome with jumpPower 1.2 and size 0.8: its jump costs 7.2 energy,
\* the plain genome's 7.5.
SpringGenes == [PlainGenes EXCEPT !.jumpPower = 120, !.size = 80]

\* Energies around both jump costs, and two well above them.
EnergyMenu ==
    {0, En(7) + 199, En(7) + 200, En(7) + 201, En(7) + 499, En(7) + 500,
     En(7) + 501, En(50), En(90)}

\* Jump cooldowns: run out below zero, exactly zero, still running.
CooldownMenu == {-5, 0, 5}

\* One creature, on the ground or one unit above it, and one fresh food
\* item at one of the spots.
InitCalls ==
    /\ \E genes \in {PlainGenes, SpringGenes}, grounded \in BOOLEAN,
          cooldown \in CooldownMenu, e \in EnergyMenu :
          creatures =
             << [Creature(0, 0, FALSE, NewDNA(genes),
                          [CreatureDraw(0, e) EXCEPT !.genes = genes])
                   EXCEPT !.isGrounded = grounded,
                          !.pos.y = IF grounded THEN @ ELSE @ + Units(1),
                          !.jumpCooldown = cooldown] >>
    /\ \E spot \in FoodSpots :
          foodEntities = << Food(1, spot[1], spot[2], NaN) >>
    /\ trees = <<>>
    /\ time = 0
    /\ isPaused = TRUE
    /\ lastTimestamp = 0
    /\ timeScale = DEFAULT_SPEED
    /\ totalBirths = 0
    /\ totalDeaths = 0
    /\ isExtinct = FALSE
    /\ usableRadius = Units(23)
    /\ nextEntityId = 2
    /\ now = 0
    /\ started = TRUE
    /\ eatLog = <<>>
    /\ birthLog = <<>>
    /\ jumpLog = <<>>
    /\ lastOp = [op |-> "new", ticked |-> FALSE]
    /\ opLog = NoLog
    /\ dna = NewDNA(PlainGenes)
    /\ budget = [frames |-> 0, calls |-> MethodCalls, spawns |-> 0, resets |-> 0,
                 mutations |-> 0]

NextCalls == CallEat(1, 1) \/ CallJump(1) \/ CallThink(1)

SpecCalls == InitCalls /\ [][NextCalls]_vars

----------------------------------------------------------------------------
(* Properties of a running population (SpecLife) *)

\* C1: at the end of every tick (World.update or World.stepForward) every
\* creature in the live collection has 0 <= energy <= maxEnergy, whatever
\* drain, reproduce(), jump() and eat() did to it during the tick.
EnergyWithinBounds ==
    \A i \in 1..Len(creatures) :
        /\ 0 <= creatures[i].energy
        /\ creatures[i].energy <= creatures[i].maxEnergy

\* A creature sits at its cap after a tick in which eat() had to clamp.
AteUpToTheCap ==
    /\ lastOp.ticked
    /\ \E i \in 1..Len(creatures), k \in 1..Len(eatLog) :
          /\ eatLog[k].creature = creatures[i].id
          /\ eatLog[k].gain < NUTRITION
          /\ creatures[i].energy = creatures[i].maxEnergy

\* C2: over any sequence of ticks each Food raises energy through
\* Creature.eat at most once: no two eat calls name the same food, and no
\* eat call is made on food that is already consumed.
EachFoodEatenOnce ==
    /\ \A k \in 1..Len(eatLog) : ~eatLog[k].wasConsumed
    /\ \A k1, k2 \in 1..Len(eatLog) :
          eatLog[k1].food = eatLog[k2].food => k1 = k2

\* Two seeking creatures stood within eating radius of the same nearest food
\* in the first tick; the one updated first ate it, the other ate another.
TwoAteInOneTick ==
    /\ time = Scaled(MAX_DELTA_TIME, SPEED_SLIDER_MAX)
    /\ Len(eatLog) = 2
    /\ eatLog[1].creature # eatLog[2].creature
    /\ eatLog[1].food # eatLog[2].food

\* C3: for every executed tick, the live count after it equals the count
\* before it, minus the increase of totalDeaths, plus the increase of
\* totalBirths.
PopulationBalance ==
    [][lastOp'.ticked =>
         Len(creatures') = Len(creatures) - (totalDeaths' - totalDeaths)
                                          + (totalBirths' - totalBirths)]_vars

\* A creature has been born and a creature has died.
BornAndDied == totalBirths > 0 /\ totalDeaths > 0 /\ lastOp.ticked

\* The frame that follows an unpause with no wall time in between:
\* togglePause has just set lastTimestamp to the clock, and update(t) is
\* called with that same t.
ZeroElapsedFrame ==
    /\ lastOp.op = "togglePause"
    /\ ~isPaused
    /\ lastOp'.op = "update"
    /\ now' = now

\* The creature of the next state that has the given id, as a set.
Later(id) == {i \in 1..Len(creatures') : creatures'[i].id = id}

\* C8 as stated: the frame after pause and unpause with zero elapsed wall
\* time changes no creature's position or energy and creates, consumes and
\* removes no entity.
ZeroElapsedFrameChangesNothing ==
    [][ZeroElapsedFrame =>
         /\ \A i \in 1..Len(creatures) : \E k \in Later(creatures[i].id) :
               /\ creatures'[k].pos = creatures[i].pos
               /\ creatures'[k].energy = creatures[i].energy
         /\ Len(creatures') = Len(creatures)
         /\ foodEntities' = foodEntities
         /\ nextEntityId' = nextEntityId]_vars

\* C8, amended: that frame is a tick of deltaTime 0.  The simulated clock
\* does not advance, no creature, food item or tree timer ages and no
\* energy is drained; the decisions of the tick still run, so a creature
\* whose energy is exactly 0 is removed, and a surviving creature keeps its
\* height and loses energy only to jump() or reproduce().
ZeroElapsedFrameStopsTheClock ==
    [][ZeroElapsedFrame =>
         /\ time' = time
         /\ \A i \in 1..Len(creatures) :
               \/ creatures[i].energy = 0 /\ Later(creatures[i].id) = {}
               \/ \E k \in Later(creatures[i].id) :
                     /\ creatures'[k].age = creatures[i].age
                     /\ creatures'[k].pos.y = creatures[i].pos.y
                     /\ \/ creatures'[k].energy >= creatures[i].energy
                        \/ creatures'[k].jumpCooldown > creatures[i].jumpCooldown
                        \/ creatures'[k].timeSinceReproduction
                             < creatures[i].timeSinceReproduction
         /\ \A j \in 1..Len(foodEntities), k \in 1..Len(foodEntities') :
               foodEntities'[k].id = foodEntities[j].id =>
                  foodEntities'[k].age = foodEntities[j].age
         /\ \A k \in 1..Len(trees) :
               trees'[k].timeSinceLastSpawn = trees[k].timeSinceLastSpawn]_vars

\* A zero-elapsed frame after an unpause has run a tick in which a creature
\* ate: the clock still reads what it read at the pause.
AteInZeroElapsedFrame ==
    /\ lastOp = [op |-> "update", ticked |-> TRUE]
    /\ now = lastTimestamp
    /\ budget.calls = LifeCalls - 2
    /\ Len(eatLog) > 0
    /\ time = Scaled(MAX_DELTA_TIME, SPEED_SLIDER_MAX)
    /\ \E i \in 1..Len(creatures) :
          eatLog[Len(eatLog)].creature = creatures[i].id
          /\ creatures[i].energy = En(70)

----------------------------------------------------------------------------
(* Properties of genomes (SpecDNA) *)

----------------------------------------------------------------------------
(* Properties of generations and of the trees' stock (SpecFrames) *)

\* C4: every creature created by spawnOffspring has its parent creature's
\* generation plus one, at any depth of descent, and every creature created
\* by spawnCreature has generation 0.
GenerationIsParentPlusOne ==
    /\ \A k \in 1..Len(birthLog) :
          birthLog[k].childGeneration = birthLog[k].parentGeneration + 1
    /\ \A i \in 1..Len(creatures) :
          (\A k \in 1..Len(birthLog) : birthLog[k].child # creatures[i].id)
             => creatures[i].generation = 0

\* The food of tree k that is in the world, neither consumed nor expired.
OutstandingFood(k) ==
    {j \in 1..Len(foodEntities) :
        /\ \E n \in 1..Len(trees[k].foodItems) :
              trees[k].foodItems[n] = foodEntities[j].id
        /\ ~foodEntities[j].isConsumed
        /\ ~foodEntities[j].isExpired}

\* The ids tree k tracks in the next state.
TrackedLater(k) ==
    {trees'[k].foodItems[n] : n \in 1..Len(trees'[k].foodItems)}

\* Whether the food at index j is still in the world, neither consumed nor
\* expired, in the next state.
LiveLater(j) ==
    \E n \in 1..Len(foodEntities') :
        /\ foodEntities'[n].id = foodEntities[j].id
        /\ ~foodEntities'[n].isConsumed
        /\ ~foodEntities'[n].isExpired

\* C6: each tree has at most MAX_FOOD_PER_TREE outstanding food items, and
\* a tree that tracks MAX_FOOD_PER_TREE live items when it is updated (none
\* of them was eaten or expired earlier in the tick) adds no food to the
\* world, not even in the tick where its spawn timer fires.
TreeStockCapped ==
    /\ [](\A k \in 1..Len(trees) :
             Cardinality(OutstandingFood(k)) <= MAX_FOOD_PER_TREE)
    /\ [][\A k \in 1..Len(trees) :
             (/\ Cardinality(OutstandingFood(k)) = MAX_FOOD_PER_TREE
              /\ \A j \in OutstandingFood(k) : LiveLater(j))
                => \A id \in TrackedLater(k) : id < nextEntityId]_vars

\* A tree holds MAX_FOOD_PER_TREE live items and its timer has just fired
\* and been rewound: the tick added nothing to it.
FullTreeFired ==
    /\ lastOp = [op |-> "update", ticked |-> TRUE]
    /\ \E k \in 1..Len(trees) :
          /\ Cardinality(OutstandingFood(k)) = MAX_FOOD_PER_TREE
          /\ trees[k].timeSinceLastSpawn = 0
          /\ \A j \in OutstandingFood(k) : foodEntities[j].age > 0

\* C27: between two successive reproductions of the same creature at least
\* REPRODUCTION_COOLDOWN seconds of simulated time elapse, a newly created
\* creature cannot reproduce before it has lived REPRODUCTION_COOLDOWN
\* simulated seconds, and a creature reproduces at most once per tick.
ReproductionsSpaced ==
    /\ [](\A k \in 1..Len(birthLog) :
             /\ birthLog[k].parentAge >= REPRODUCTION_COOLDOWN
             /\ \A n \in 1..(k - 1) :
                   birthLog[n].parent = birthLog[k].parent =>
                      birthLog[k].parentAge - birthLog[n].parentAge
                         >= REPRODUCTION_COOLDOWN)
    /\ [][\A k, n \in (Len(birthLog) + 1)..Len(birthLog') :
             birthLog'[k].parent = birthLog'[n].parent => k = n]_vars

\* A creature has reproduced a second time exactly REPRODUCTION_COOLDOWN
\* seconds after its first time, and a creature born in the world has
\* reproduced.
ReproducedTwice ==
    /\ \E n, k \in 1..Len(birthLog) :
          /\ n < k
          /\ birthLog[n].parent = birthLog[k].parent
          /\ birthLog[k].parentAge - birthLog[n].parentAge = REPRODUCTION_COOLDOWN
    /\ \E n, k \in 1..Len(birthLog) : birthLog[n].child = birthLog[k].parent

----------------------------------------------------------------------------
(* Properties of the operations (Spec) *)

\* The simulation a tick works on.
simulation == <<creatures, foodEntities, trees, time>>

\* C7: once the live count reaches zero the extinction flag is set; from
\* then on no operation but reset does simulation work (creature, food or
\* tree updates, clock advance); reset clears the flag.
HaltedUntilReset ==
    [][/\ (lastOp'.ticked /\ Len(creatures') = 0) => isExtinct'
       /\ (isExtinct /\ lastOp'.op # "reset") => UNCHANGED simulation
       /\ lastOp'.op = "reset" => ~isExtinct']_vars

\* The food of the next state that has the given id, as a set.
FoodLater(id) == {n \in 1..Len(foodEntities') : foodEntities'[n].id = id}

\* C9: isConsumed and isExpired are terminal: a food item that has either
\* flag set has it set in every later state it is part of, and consume()
\* on a consumed item changes nothing.
FlagsAreTerminal ==
    [][\A j \in 1..Len(foodEntities) :
          /\ \A n \in FoodLater(foodEntities[j].id) :
                /\ foodEntities[j].isConsumed => foodEntities'[n].isConsumed
                /\ foodEntities[j].isExpired => foodEntities'[n].isExpired
          /\ foodEntities[j].isConsumed =>
                Consume(foodEntities[j]) = foodEntities[j]]_vars

\* A consumed item has lived through a further single step with its flag
\* set: it has aged two steps since it was eaten (the step it was eaten in
\* and one more).
FlagOutlivedAStep ==
    /\ lastOp = [op |-> "stepForward", ticked |-> TRUE]
    /\ \E j \in 1..Len(foodEntities), k \in 1..Len(eatLog) :
          /\ eatLog[k].food = foodEntities[j].id
          /\ foodEntities[j].isConsumed
          /\ foodEntities[j].age = eatLog[k].foodAge + 2 * STEP_DELTA

----------------------------------------------------------------------------
(* Properties of the methods called directly (SpecCalls) *)

\* C11: Creature.eat(food) on a food item whose isConsumed flag is already
\* true grants zero nutrition: the call leaves the creature's energy as it
\* was.
ConsumedFoodGrantsNothing ==
    \A k \in 1..Len(eatLog) : eatLog[k].wasConsumed => eatLog[k].gain = 0

\* The cost of a jump as the product JUMP_ENERGY_COST_BASE * jumpPower *
\* JUMP_ENERGY_SCALING * size, for the creature at index i.
CostOfJump(i) ==
    (JUMP_ENERGY_COST_BASE * creatures[i].dna.genes.jumpPower
       * JUMP_ENERGY_SCALING_TENTHS * creatures[i].dna.genes.size) \div 100000

\* Jumping is enabled, the creature is grounded, its cooldown has run out
\* and its energy covers the cost.
MayJump(i) ==
    /\ JUMPING_ENABLED
    /\ creatures[i].isGrounded
    /\ creatures[i].jumpCooldown <= 0
    /\ creatures[i].energy >= CostOfJump(i)

\* C15: jump() returns false and changes nothing of the creature (energy,
\* velocity, jumpCooldown, grounded flag) unless jumping is enabled, the
\* creature is grounded, jumpCooldown <= 0 and energy >= cost; the energy
\* test is inclusive: a jump with energy exactly equal to the cost succeeds
\* and leaves energy 0.
JumpRefusedUnlessAllowed ==
    [][lastOp'.op = "jump" =>
         /\ ~MayJump(1) => /\ opLog'.returned = <<FALSE>>
                           /\ creatures' = creatures
         /\ MayJump(1) => /\ opLog'.returned = <<TRUE>>
                          /\ creatures'[1].energy = creatures[1].energy - CostOfJump(1)
                          /\ creatures'[1].energy >= 0
         /\ (MayJump(1) /\ creatures[1].energy = CostOfJump(1)) =>
               creatures'[1].energy = 0]_vars

\* A jump was made with energy exactly equal to its cost.
JumpedOnTheLastEnergy ==
    /\ lastOp.op = "jump"
    /\ opLog.returned = <<TRUE>>
    /\ creatures[1].energy = 0
    /\ creatures[1].jumpCooldown = JUMP_COOLDOWN

\* C16: a successful jump() sets the vertical velocity to BASE_JUMP_VELOCITY
\* * jumpPower, deducts the jump cost from energy, sets jumpCooldown to
\* JUMP_COOLDOWN and clears the grounded flag: isGrounded is false when
\* jump() returns.
JumpLeavesTheGround ==
    [][(lastOp'.op = "jump" /\ MayJump(1)) =>
         /\ creatures'[1].vel.y =
               (BASE_JUMP_VELOCITY * creatures[1].dna.genes.jumpPower) \div 100
         /\ creatures'[1].energy = creatures[1].energy - CostOfJump(1)
         /\ creatures'[1].jumpCooldown = JUMP_COOLDOWN
         /\ ~creatures'[1].isGrounded]_vars

\* The maximum jump height (BASE_JUMP_VELOCITY * jumpPower)^2 / (2 *
\* GRAVITY) of the creature at index i, in hundredths of a unit.
JumpHeightLimit(i) ==
    (((BASE_JUMP_VELOCITY * creatures[i].dna.genes.jumpPower) \div 100)
        * ((BASE_JUMP_VELOCITY * creatures[i].dna.genes.jumpPower) \div 100))
       \div (2 * GRAVITY)

\* How far food j is above creature i, and how far away horizontally.
GapAbove(i, j) == foodEntities[j].pos.y - creatures[i].pos.y

Horizontally(i, j) ==
    IF foodEntities[j].pos.x >= creatures[i].pos.x
    THEN foodEntities[j].pos.x - creatures[i].pos.x
    ELSE creatures[i].pos.x - foodEntities[j].pos.x

\* Food j is the target of creature i (it is the one food item, so it is
\* the nearest one when it is unconsumed and within perception) and lies
\* outside the eating radius EATING_DISTANCE + size / 2.
TargetOutOfReach(i, j) ==
    /\ ~foodEntities[j].isConsumed
    /\ Horizontally(i, j) * 100
          < PERCEPTION_RADIUS * creatures[i].dna.genes.perception
    /\ Horizontally(i, j) * Horizontally(i, j) + GapAbove(i, j) * GapAbove(i, j)
          >= (EATING_DISTANCE + creatures[i].dna.genes.size \div 2)
               * (EATING_DISTANCE + creatures[i].dna.genes.size \div 2)

\* C30: the AI calls jump() only for a creature in the seeking_food state
\* whose target (the nearest visible unconsumed food) is not within eating
\* radius, is more than 1.0 above the creature, is horizontally closer than
\* 3 * EATING_DISTANCE, and whose vertical gap is at most the creature's
\* maximum jump height (BASE_JUMP_VELOCITY * jumpPower)^2 / (2 * GRAVITY);
\* with maximum jump height 2.5, food 2.0 above a ready creature triggers a
\* successful jump and food 3.0 above triggers no jump call.
JumpCalledOnlyWithinReach ==
    [][lastOp'.op = "think" =>
         LET called == \E n \in 1..Len(opLog'.seeks) : opLog'.seeks[n].called
             succeeded == \E n \in 1..Len(opLog'.seeks) : opLog'.seeks[n].returned
             warranted == /\ creatures'[1].state = "seeking_food"
                          /\ TargetOutOfReach(1, 1)
                          /\ GapAbove(1, 1) > Units(1)
                          /\ Horizontally(1, 1) < 3 * EATING_DISTANCE
                          /\ GapAbove(1, 1) <= JumpHeightLimit(1)
         IN  /\ called <=> warranted
             /\ succeeded <=> (called /\ MayJump(1))
             /\ succeeded =>
                   /\ creatures'[1].vel.y =
                         (BASE_JUMP_VELOCITY * creatures[1].dna.genes.jumpPower) \div 100
                   /\ creatures'[1].jumpCooldown = JUMP_COOLDOWN
             /\ ~succeeded =>
                   /\ creatures'[1].vel.y = creatures[1].vel.y
                   /\ creatures'[1].jumpCooldown = creatures[1].jumpCooldown
             /\ (JumpHeightLimit(1) = Units(2) + 50 /\ GapAbove(1, 1) = Units(3))
                   => ~called]_vars

\* think() has just made a successful jump call for a creature of maximum
\* jump height 2.5 under food 2.0 above it.
JumpedForFoodTwoAbove ==
    /\ lastOp.op = "think"
    /\ opLog.seeks = <<[creature |-> creatures[1].id, food |-> foodEntities[1].id,
                        called |-> TRUE, returned |-> TRUE]>>
    /\ JumpHeightLimit(1) = Units(2) + 50
    /\ GapAbove(1, 1) = Units(2)
    /\ creatures[1].state = "seeking_food"
    /\ creatures[1].vel.y = BASE_JUMP_VELOCITY
    /\ creatures[1].jumpCooldown = JUMP_COOLDOWN

----------------------------------------------------------------------------
(* Properties of the passes of one tick (SpecPass) *)

\* The positions in the next state's log of the calls of one kind made on
\* the entity with the given id.
Calls(kind, id) ==
    {n \in 1..Len(opLog'.order) :
        opLog'.order[n].kind = kind /\ opLog'.order[n].id = id}

\* The ids of the creatures born during the step.
Newborn ==
    {birthLog'[k].child : k \in (Len(birthLog) + 1)..Len(birthLog')}

\* C12: within one tick every creature that is live when the tick starts has
\* update() called exactly once, and never after its removal; a creature
\* born during the tick is in the live collection afterwards but has update()
\* called zero times in that tick, also when creatures die and are spliced
\* out during the same pass.
EachCreatureUpdatedOnce ==
    [][lastOp'.ticked =>
         /\ \A i \in 1..Len(creatures) :
               /\ Cardinality(Calls("creature", creatures[i].id)) = 1
               /\ \A n \in Calls("creature", creatures[i].id),
                     m \in Calls("removed", creatures[i].id) : n < m
         /\ \A id \in Newborn :
               /\ \E i \in 1..Len(creatures') : creatures'[i].id = id
               /\ Calls("creature", id) = {}]_vars

\* In the last tick one creature was removed and another one gave birth;
\* the newborn is live and was not updated.
BornInATickWithASplice ==
    /\ lastOp.ticked
    /\ Len(birthLog) > 0
    /\ \E n, m \in 1..Len(opLog.order) :
          /\ opLog.order[n].kind = "removed"
          /\ opLog.order[m] = Step("creature", birthLog[Len(birthLog)].parent)
    /\ \E i \in 1..Len(creatures) :
          /\ creatures[i].id = birthLog[Len(birthLog)].child
          /\ creatures[i].age = 0
    /\ \A n \in 1..Len(opLog.order) :
          opLog.order[n].id # birthLog[Len(birthLog)].child

\* The pass a logged call belongs to: creatures, food, the splice, trees.
Pass(kind) ==
    CASE kind = "creature" -> 1
      [] kind = "removed" -> 1
      [] kind = "food" -> 2
      [] kind = "prune" -> 3
      [] kind = "tree" -> 4

\* The tracked items of the tree with the given id that are in the next
\* state's food list.
TrackedAndKept(id) ==
    {f \in UNION {{trees[k].foodItems[n] : n \in 1..Len(trees[k].foodItems)} :
                     k \in {k \in 1..Len(trees) : trees[k].id = id}} :
        \E j \in 1..Len(foodEntities') : foodEntities'[j].id = f}

\* C13: within every tick all creature updates complete before any food
\* update, and all food updates and the pruning complete before any tree
\* update; so food eaten in a tick is out of the food list when that tick
\* ends, and a tree's cap test counts only food that survived the prune.
PassesInOrder ==
    [][lastOp'.ticked =>
         /\ \A n, m \in 1..Len(opLog'.order) :
               n < m => Pass(opLog'.order[n].kind) <= Pass(opLog'.order[m].kind)
         /\ \A k \in (Len(eatLog) + 1)..Len(eatLog') :
               \A j \in 1..Len(foodEntities') :
                  foodEntities'[j].id # eatLog'[k].food
         /\ \A n \in 1..Len(opLog'.counts) :
               opLog'.counts[n].counted =
                  Cardinality(TrackedAndKept(opLog'.counts[n].tree))]_vars

\* The energy of creature i after the drain step of a tick that advances the
\* clock from time to time'.
Drained(i) ==
    creatures[i].energy
    - Quot(creatures[i].energyDrainRate * (time' - time), 100)

\* The records removeCreature received in the step for the given id.
Corpses(id) ==
    {n \in 1..Len(opLog'.corpses) : opLog'.corpses[n].id = id}

\* C14: in the tick where a creature's energy is <= 0 after the drain step,
\* the creature is marked dead without reproducing, thinking, eating or
\* moving (position, velocity and behavior state are those it had before
\* the tick), it is out of the live collection when the tick ends, and
\* totalDeaths grows by exactly 1 for it.
DeathTickDoesNothingElse ==
    [][lastOp'.ticked =>
         /\ \A i \in 1..Len(creatures) :
               Drained(i) <= 0 =>
                  /\ \A j \in 1..Len(creatures') : creatures'[j].id # creatures[i].id
                  /\ Cardinality(Corpses(creatures[i].id)) = 1
                  /\ \A n \in Corpses(creatures[i].id) :
                        /\ opLog'.corpses[n].isDead
                        /\ opLog'.corpses[n].pos = creatures[i].pos
                        /\ opLog'.corpses[n].vel = creatures[i].vel
                        /\ opLog'.corpses[n].state = creatures[i].state
                        /\ opLog'.corpses[n].brain = creatures[i].brain
                  /\ \A k \in (Len(birthLog) + 1)..Len(birthLog') :
                        birthLog'[k].parent # creatures[i].id
                  /\ \A k \in (Len(eatLog) + 1)..Len(eatLog') :
                        eatLog'[k].creature # creatures[i].id
         /\ totalDeaths' - totalDeaths =
               Cardinality({i \in 1..Len(creatures) : Drained(i) <= 0})]_vars

\* The last tick removed a creature that was on the move.
DiedInItsTracks ==
    /\ lastOp.ticked
    /\ totalDeaths = 1
    /\ Len(opLog.corpses) = 1
    /\ opLog.corpses[1].vel.x # 0
    /\ opLog.corpses[1].energy <= 0

\* The births of the step, as positions in the next state's birthLog.
Births == (Len(birthLog) + 1)..Len(birthLog')

\* C18: Creature.update performs reproduce() only when canReproduce() holds
\* (energy >= REPRODUCTION_ENERGY_THRESHOLD and timeSinceReproduction >=
\* REPRODUCTION_COOLDOWN, both as they are after the tick's aging and
\* drain); one reproduce() call deducts exactly REPRODUCTION_ENERGY_COST
\* from the parent, resets the parent's cooldown timer to 0, adds exactly
\* one creature with OFFSPRING_STARTING_ENERGY to the world and increments
\* totalBirths by exactly 1.
ReproductionContract ==
    [][lastOp'.ticked =>
         /\ \A k \in Births :
               LET b == birthLog'[k]
               IN  /\ \E i \in 1..Len(creatures) :
                         /\ creatures[i].id = b.parent
                         /\ b.energyBefore = Drained(i)
                         /\ b.timerBefore =
                               creatures[i].timeSinceReproduction + (time' - time)
                   /\ b.energyBefore >= REPRODUCTION_ENERGY_THRESHOLD
                   /\ b.timerBefore >= REPRODUCTION_COOLDOWN
                   /\ b.energyAfter = b.energyBefore - REPRODUCTION_ENERGY_COST
                   /\ b.timerAfter = 0
                   /\ Cardinality({j \in 1..Len(creatures') :
                                      creatures'[j].id = b.child}) = 1
                   /\ \A j \in 1..Len(creatures') :
                         creatures'[j].id = b.child =>
                            creatures'[j].energy = OFFSPRING_STARTING_ENERGY
                   /\ \A n \in Births : birthLog'[n].child = b.child => n = k
         /\ Cardinality({j \in 1..Len(creatures') :
                            \A i \in 1..Len(creatures) :
                               creatures[i].id # creatures'[j].id})
               = Cardinality(Births)
         /\ totalBirths' - totalBirths = Cardinality(Births)]_vars

\* The last tick saw a birth by a parent that was exactly at the energy
\* threshold with its cooldown exactly run out.
BornAtTheThreshold ==
    /\ lastOp.ticked
    /\ totalBirths = 1
    /\ Len(birthLog) = 1
    /\ birthLog[1].energyBefore = REPRODUCTION_ENERGY_THRESHOLD
    /\ birthLog[1].timerBefore = REPRODUCTION_COOLDOWN
    /\ \A n \in 1..Len(opLog.order) : opLog.order[n].id # birthLog[1].child

----------------------------------------------------------------------------
(* Properties of the behavior state (Spec) *)

\* Whether creature i gave birth, and whether it ate, during the step.
GaveBirth(i) ==
    \E k \in (Len(birthLog) + 1)..Len(birthLog') :
       birthLog'[k].parent = creatures[i].id

Ate(i) ==
    \E k \in (Len(eatLog) + 1)..Len(eatLog') :
       eatLog'[k].creature = creatures[i].id

\* The energy of creature i when think() runs in the step's tick: after the
\* drain and after the cost of a birth.
EnergyAtThink(i) ==
    Drained(i) - (IF GaveBirth(i) THEN REPRODUCTION_ENERGY_COST ELSE 0)

----------------------------------------------------------------------------
(* Properties of reset and of skipped frames (Spec) *)

\* The ids of every entity of the next state: creatures, food, trees and
\* the food each tree tracks.
EntitiesLater ==
    {creatures'[i].id : i \in 1..Len(creatures')}
    \cup {foodEntities'[j].id : j \in 1..Len(foodEntities')}
    \cup {trees'[k].id : k \in 1..Len(trees')}
    \cup UNION {{trees'[k].foodItems[n] : n \in 1..Len(trees'[k].foodItems)} :
                  k \in 1..Len(trees')}

\* C19: after reset(creatureCount, treeCount, islandRadius) from any state
\* (running, paused or extinct) the clock, totalBirths and totalDeaths are
\* 0, the pause and extinction flags are both false, the creature
\* collection holds exactly creatureCount creatures, all of generation 0,
\* the tree collection holds exactly treeCount trees, and no creature, food
\* item or tree from before the reset is in any collection.
ResetRebuildsTheWorld ==
    [][lastOp'.op = "reset" =>
         /\ time' = 0
         /\ totalBirths' = 0
         /\ totalDeaths' = 0
         /\ ~isPaused'
         /\ ~isExtinct'
         /\ Len(creatures') = opLog'.request[1]
         /\ \A i \in 1..Len(creatures') : creatures'[i].generation = 0
         /\ Len(trees') = opLog'.request[2]
         /\ \A id \in EntitiesLater : id >= nextEntityId]_vars

\* A reset has replaced a populated world in which a tick had run: ids 0
\* to 2 went to the first population, 3 to the fruit a tree grew in a tick,
\* and the second population starts at 4.
RebuiltAfterALife ==
    /\ lastOp.op = "reset"
    /\ time = 0
    /\ ~isPaused
    /\ Len(creatures) = 1
    /\ creatures[1].id = 6
    /\ creatures[1].age = 0

\* C20: a frame whose wall-clock delta exceeds MAX_DELTA_TIME is skipped
\* entirely: no creature, food or tree is updated, the clock and the birth
\* and death counters are unchanged and no extinction is raised; only
\* lastTimestamp is advanced.  A delta exactly equal to MAX_DELTA_TIME is
\* accepted and integrated.
OversizedFrameSkipped ==
    [][(lastOp'.op = "update" /\ ~isPaused /\ ~isExtinct) =>
         /\ now' - lastTimestamp > MAX_DELTA_TIME =>
               /\ UNCHANGED <<creatures, foodEntities, trees, time, totalBirths,
                              totalDeaths, isExtinct, isPaused, nextEntityId>>
               /\ opLog'.order = <<>>
               /\ lastTimestamp' = now'
         /\ now' - lastTimestamp = MAX_DELTA_TIME =>
               /\ lastOp'.ticked
               /\ time' = time + (MAX_DELTA_TIME * timeScale) \div 10
               /\ \A i \in 1..Len(creatures) :
                     Calls("creature", creatures[i].id) # {}
               /\ lastTimestamp' = now']_vars

\* A frame of a running, populated world was skipped for its delta.
SkippedAFrame ==
    /\ lastOp = [op |-> "update", ticked |-> FALSE]
    /\ ~isPaused
    /\ ~isExtinct
    /\ Len(creatures) > 0
    /\ lastTimestamp = now
    /\ time > 0

----------------------------------------------------------------------------
(* Properties of a world whose frames always advance the clock (SpecRun) *)

\* C21: DNA.mutate() never modifies the genome it is called on: after any
\* reproduce() the parent's gene values are those it had before the call,
\* and the offspring holds a genome of its own, so a creature's genes never
\* change during its lifetime.  (Genomes are values here: the offspring's
\* genome being an instance of its own shows in the parent's genes staying
\* as they were whatever mutate() gave the offspring.)
GenomeNeverModified ==
    [][/\ \A i \in 1..Len(creatures) : \A j \in Later(creatures[i].id) :
             creatures'[j].dna.genes = creatures[i].dna.genes
       /\ \A k \in Births :
             \E i \in 1..Len(creatures) :
                /\ creatures[i].id = birthLog'[k].parent
                /\ \E j \in Later(creatures[i].id) :
                      creatures'[j].dna.genes = creatures[i].dna.genes
                /\ \E j \in 1..Len(creatures') :
                      /\ creatures'[j].id = birthLog'[k].child
                      /\ \A g \in GeneNames :
                            \/ creatures'[j].dna.genes[g] = creatures[i].dna.genes[g]
                            \/ creatures'[j].dna.genes[g] =
                                  MutateGene(g, creatures[i].dna.genes[g],
                                             GrowRolls[g])]_vars

\* The last tick saw a birth whose mutation rolls changed genes: the
\* offspring is larger than its parent, which is the size it was born with.
OffspringMutatedParentIntact ==
    /\ lastOp.ticked
    /\ Len(birthLog) > 0
    /\ \E i, j \in 1..Len(creatures) :
          /\ creatures[i].id = birthLog[Len(birthLog)].parent
          /\ creatures[j].id = birthLog[Len(birthLog)].child
          /\ creatures[j].age = 0
          /\ creatures[i].dna.genes = PlainGenes
          /\ creatures[j].dna.genes.size > creatures[i].dna.genes.size

\* Whether a creature with the given id is live, and whether one ever ate.
InWorld(id) == \E i \in 1..Len(creatures) : creatures[i].id = id

EverAte(id) == \E k \in 1..Len(eatLog) : eatLog[k].creature = id

\* The ticks in which a creature that never ate runs out of energy: it has
\* at most STARTING_ENERGY_MAX, and the least a tick of this specification
\* drains is the drain of half a second at speed 15 at ENERGY_DRAIN_RATE.
TicksToStarve ==
    STARTING_ENERGY_MAX
       \div Quot(ENERGY_DRAIN_RATE
                   * Scaled(MAX_DELTA_TIME \div 2, SPEED_SLIDER_MAX), 100) + 1

\* A range that holds the id of every creature of the explored frames (the
\* property below checks that it does): six ids go to the first
\* population, and the frames hand out fewer than one a frame after that.
EntityIds == 0..(RunFrames + 5)

\* C22: starvation liveness.  While ticks with positive scaled delta keep
\* occurring (here: at least TicksToStarve frames are still to come), a
\* creature that never eats is eventually marked dead and removed from the
\* world: its energy decreases on every such tick, and reproduce() and
\* jump() only deduct energy.
StarvesUnlessItEats ==
    /\ [](\A i \in 1..Len(creatures) : creatures[i].id \in EntityIds)
    /\ \A id \in EntityIds :
          []((InWorld(id) /\ budget.frames >= TicksToStarve)
                => <>(EverAte(id) \/ ~InWorld(id)))

\* The last tick removed a creature that had lived through several ticks
\* and never ate.
StarvedWithoutEating ==
    /\ lastOp.ticked
    /\ Len(opLog.corpses) = 1
    /\ ~EverAte(opLog.corpses[1].id)
    /\ ~InWorld(opLog.corpses[1].id)
    /\ opLog.corpses[1].isDead
    /\ opLog.corpses[1].age >= Sec(25)

\* C23: the AI controller's think step never writes the creature's
\* behavior state: the wandering/seeking_food transition is made by
\* Creature.update before think is called, and think only executes the
\* behavior of the state it is handed.
ThinkLeavesTheState ==
    \A n \in 1..Len(opLog.thoughts) :
       opLog.thoughts[n].left = opLog.thoughts[n].handed

----------------------------------------------------------------------------
(* Properties of single steps (SpecPass) *)

\* C24: after every tick-like operation (a World.update tick or a
\* stepForward call) the world's active food list contains no item that is
\* consumed or expired.
NoSpentFoodAfterTick ==
    lastOp.ticked =>
       \A j \in 1..Len(foodEntities) :
          ~foodEntities[j].isConsumed /\ ~foodEntities[j].isExpired

\* C25: stepForward() is a no-op unless the world is paused; when paused
\* it advances the world by exactly one frame: it leaves creatures, food,
\* trees, the clock and the extinction state as one accepted World.update
\* tick with scaled delta 1/20 s would.
StepIsOneFrame ==
    [][lastOp'.op = "stepForward" =>
         IF ~isPaused
         THEN UNCHANGED <<creatures, foodEntities, trees, time, isExtinct>>
         ELSE \E w \in {Tick(World, STEP_DELTA, CalmDraw)} :
                 /\ creatures' = w.creatures
                 /\ foodEntities' = w.foodEntities
                 /\ trees' = w.trees
                 /\ time' = time + STEP_DELTA
                 /\ isExtinct' = (isExtinct \/ Len(w.creatures) = 0)]_vars

----------------------------------------------------------------------------
(* Properties of extinction (Spec) *)

\* C26: extinction is raised only when the live-creature count just became
\* zero, that is in a tick that began with at least one live creature and
\* ended with none; a world that has not yet been populated (the update
\* loop started before the first reset) or that was reset with zero
\* creatures does not raise extinction.
ExtinctionOnlyAfterLife ==
    [][(~isExtinct /\ isExtinct') =>
          (lastOp'.ticked /\ Len(creatures) > 0 /\ Len(creatures') = 0)]_vars

----------------------------------------------------------------------------
(* Properties of food expiration (SpecPass) *)

\* C28: every Food item has a finite positive expiration duration (within
\* [mean * (1 - variance), mean * (1 + variance)] of the configured
\* expiration mean), and a food item that is never eaten is marked expired
\* and removed from the active food list in the first tick at which its
\* accumulated age reaches that duration.
FoodExpiresOnTime ==
    /\ [](\A j \in 1..Len(foodEntities) :
             /\ foodEntities[j].expirationTime # NaN
             /\ foodEntities[j].expirationTime > 0)
    /\ [][lastOp'.ticked =>
             \A j \in 1..Len(foodEntities) :
                (/\ foodEntities[j].age + (time' - time)
                       >= foodEntities[j].expirationTime
                 /\ \A k \in (Len(eatLog) + 1)..Len(eatLog') :
                       eatLog'[k].food # foodEntities[j].id)
                   => FoodLater(foodEntities[j].id) = {}]_vars

----------------------------------------------------------------------------
(* Properties of reset's arguments (SpecSetup) *)

\* C29: reset called with an invalid configuration (for example a negative
\* island radius) raises a hard error synchronously to the caller instead
\* of building a world.
InvalidResetRaises ==
    [][(lastOp'.op = "reset" /\ opLog'.request[3] < 0) =>
          /\ opLog'.raised
          /\ Len(creatures') = 0
          /\ Len(trees') = 0
          /\ nextEntityId' = nextEntityId]_vars

----------------------------------------------------------------------------
(* Properties of the island's boundary and floor (SpecRun, SpecLife) *)

\* C31: at the end of every tick every live creature is at most
\* ISLAND_USABLE_RADIUS from the world origin, the creatures born during
\* that tick included.
CreaturesWithinIsland ==
    lastOp.ticked =>
        \A i \in 1..Len(creatures) : Abs(creatures[i].pos.x) <= usableRadius

\* The grounded flag of entity e, whose ground height is floor, tells the
\* truth: set only when e rests at floor with no vertical velocity.
RestsWhenGrounded(e, floor) ==
    e.isGrounded => (e.pos.y = floor /\ e.vel.y = 0)

\* C32: between operations, every creature and every food item whose
\* grounded flag is set is at its ground height (half the body size for a
\* creature, 0.3 for food) with vertical velocity 0, and no entity that
\* physics moves is below its ground height.
GroundedMeansAtRest ==
    /\ \A i \in 1..Len(creatures) :
          /\ RestsWhenGrounded(creatures[i], GetGroundHeight(creatures[i]))
          /\ creatures[i].pos.y >= GetGroundHeight(creatures[i])
    /\ \A j \in 1..Len(foodEntities) :
          /\ RestsWhenGrounded(foodEntities[j], FOOD_GROUND_HEIGHT)
          /\ ~foodEntities[j].isAttachedToTree =>
                foodEntities[j].pos.y >= FOOD_GROUND_HEIGHT

----------------------------------------------------------------------------
(* Properties of halting and resuming (Spec) *)

\* C33: wall-clock time that passes while the world is halted is never
\* integrated: every executed frame, the first one after a resumption by
\* togglePause or by reset included, advances the clock by the time scale
\* times the wall time of that frame alone.  (now stands still during every
\* operation but a frame, so now' - now is the wall time since the world
\* was last running.)
HaltedTimeNotIntegrated ==
    [][ (lastOp'.op = "update" /\ lastOp'.ticked)
           => time' - time = Scaled(now' - now, timeScale) ]_vars

----------------------------------------------------------------------------
(* Properties of the speed setting (SpecSpeed) *)

\* The speed the caller of the last setTimeScale asked for, brought into
\* the speed slider's range.
RequestedSpeed(request) ==
    Max(SPEED_SLIDER_MIN, Min(SPEED_SLIDER_MAX, request[1]))

\* C34: setTimeScale(s) stores s itself when s lies in [SPEED_SLIDER_MIN,
\* SPEED_SLIDER_MAX] and the nearest of the two bounds otherwise, and the
\* accepted frame after it advances the clock by the raw delta times that
\* speed.
SpeedStoredAsRequested ==
    [][ /\ lastOp'.op = "setTimeScale"
           => timeScale' = RequestedSpeed(opLog'.request)
        /\ (lastOp.op = "setTimeScale" /\ lastOp'.op = "update" /\ lastOp'.ticked)
           => time' - time =
                 Scaled(now' - lastTimestamp, RequestedSpeed(opLog.request)) ]_vars

----------------------------------------------------------------------------
(* Properties of extinction under the control surface (SpecPanel) *)

\* C35: whenever the extinction flag is set there is no live creature,
\* whatever spawnCreature, togglePause and stepForward calls come between
\* the frames.
ExtinctMeansEmpty == isExtinct => Len(creatures) = 0

----------------------------------------------------------------------------
(* Properties of successive jumps (SpecLife) *)

\* C36: every jump() that succeeds finds its creature grounded, at its
\* ground height and with no vertical velocity, and at least JUMP_COOLDOWN
\* of simulated time (the creature's age, which every update advances by
\* the tick's delta) after the same creature's previous successful jump.
JumpsFromRestAndSpaced ==
    \A k \in 1..Len(jumpLog) :
        /\ jumpLog[k].grounded
        /\ jumpLog[k].height = jumpLog[k].floor
        /\ jumpLog[k].rising = 0
        /\ \A n \in 1..(k - 1) :
              jumpLog[n].creature = jumpLog[k].creature
                 => jumpLog[k].age - jumpLog[n].age >= JUMP_COOLDOWN

\* A creature jumped, and jumped again once it had landed and the cooldown
\* had run out.
JumpedAgainAfterLanding ==
    \E n, k \in 1..Len(jumpLog) :
        /\ n < k
        /\ jumpLog[n].creature = jumpLog[k].creature
        /\ jumpLog[k].cooldown <= 0
        /\ jumpLog[k].age > jumpLog[n].age

====
